---- MODULE Spec2Model ----
(***************************************************************************)
(* Model of the tweet-draft generation pipeline: the generation client     *)
(* (generateTweets, parseResponse), the output store (saveDrafts) and the  *)
(* dashboard's generation request (POST /api/drafts).                      *)
(*                                                                         *)
(* Conventions                                                             *)
(*  - A JavaScript value is a record [t, s, n]: t is its typeof-like tag,  *)
(*    s its string payload, n its numeric payload.  A property that is     *)
(*    absent from a JSON object reads as Undefined.                        *)
(*  - Confidence scores are counted in tenths: Num(5) is 0.5.              *)
(*  - The clock now counts abstract milliseconds; TicksPerDay of them      *)
(*    make one UTC calendar day.                                           *)
(*  - A text is a sequence of tokens: a code fence, a word, whitespace, a  *)
(*    JSON document, or junk that is not JSON.                             *)
(***************************************************************************)
EXTENDS Integers, Sequences, FiniteSets, TLC

VARIABLES
  now,          \* the wall clock (Date.now())
  store,        \* the drafts directory: file name -> persisted batch
  lastSaver,    \* history: file name -> the request that wrote it last
  pc,           \* per request: position in POST
  body,         \* per request: the request body
  scrapedInput, \* per request: POST's scrapedInput
  scrapeErrors, \* per request: POST's scrapeErrors, by connector
  input,        \* per request: POST's input
  result,       \* per request: the Result of generateTweets
  saveResult,   \* per request: the Result of saveDrafts
  response,     \* per request: the HTTP response
  calls,        \* per request: messages.create invocations made for it
  overlapped,   \* history, per request: another request was in flight on arrival
  gpc,          \* generateTweets called on its own: position
  gInput,       \* ... its argument
  gBackend,     \* ... how the backend behaves for this call
  gResult,      \* ... the Result it resolved to
  gCalls,       \* ... messages.create invocations made
  conn,         \* the connector that runs: "news", "twitter" or "onchain"
  cpc,          \* the connector's position
  cIdx,         \* index of the feed or account it is at
  cItems,       \* allNews or allTweets
  cData,        \* the on-chain values gathered so far
  cRequests,    \* network requests the connector has issued
  cLog,         \* history: what each upstream call gave, and when
  cResult,      \* the Result the connector returned
  bearerToken,  \* process.env.TWITTER_BEARER_TOKEN
  draftsDirEnv, \* process.env.DRAFTS_DIR
  loaded,       \* the response of the last GET /api/drafts
  patched,      \* the response of the last PATCH /api/drafts/[id]
  revise,       \* POST /api/revise: its position and its response
  storedContent,  \* a draft card: the content of its draft in the store
  localContent,   \* DraftCard's localContent
  editOpen,       \* DraftCard's editOpen
  reviseOpen,     \* DraftCard's reviseOpen
  editedContent,  \* DraftEditor's editedContent
  typedFeedback,  \* ReviseDialog's feedback
  revisedContent, \* ReviseDialog's revisedContent
  error,          \* ReviseDialog's error
  loading,        \* ReviseDialog's loading
  session,        \* history: how often the revise dialog has been opened
  asked,          \* history: the session whose request is in flight, or 0
  revisedIn,      \* history: the session whose request gave revisedContent, or 0
  typed           \* history: the editor's text was typed in since it was opened

vars == <<now, store, lastSaver, pc, body, scrapedInput, scrapeErrors, input, result,
          saveResult, response, calls, overlapped,
          gpc, gInput, gBackend, gResult, gCalls,
          conn, cpc, cIdx, cItems, cData, cRequests, cLog, cResult, bearerToken,
          draftsDirEnv, loaded, patched, revise,
          storedContent, localContent, editOpen, reviseOpen, editedContent,
          typedFeedback, revisedContent, error, loading, session, asked, revisedIn,
              typed>>

reqVars == <<pc, body, scrapedInput, scrapeErrors, input, result, saveResult, response,
             calls, overlapped>>
genVars == <<gpc, gInput, gBackend, gResult, gCalls>>
storeVars == <<store, lastSaver>>
connVars == <<conn, cpc, cIdx, cItems, cData, cRequests, cLog, cResult, bearerToken>>
dashVars == <<draftsDirEnv, loaded, patched, revise>>
cardVars == <<storedContent, localContent, editOpen, reviseOpen, editedContent,
              typedFeedback, revisedContent, error, loading, session, asked, revisedIn,
              typed>>

(***************************************************************************)
(* Bounds                                                                  *)
(***************************************************************************)
MaxClock == 2
TicksPerDay == 2
MaxEntries == 2
NumReqs == 2

(***************************************************************************)
(* JavaScript values                                                       *)
(***************************************************************************)
Undefined == [t |-> "undefined", s |-> "", n |-> 0]
Null == [t |-> "null", s |-> "", n |-> 0]
Str(x) == [t |-> "string", s |-> x, n |-> 0]
Num(k) == [t |-> "number", s |-> "", n |-> k]
Obj(x) == [t |-> "object", s |-> x, n |-> 0]
Bool(b) == [t |-> "boolean", s |-> "", n |-> IF b THEN 1 ELSE 0]

\* ToBoolean: undefined, null, "", 0 and false are falsy.
Truthy(v) ==
  ~ \/ v.t \in {"undefined", "null"}
    \/ v.t = "string" /\ v.s = ""
    \/ v.t \in {"number", "boolean"} /\ v.n = 0

\* a || b
Or(a, b) == IF Truthy(a) THEN a ELSE b

(***************************************************************************)
(* Time                                                                    *)
(***************************************************************************)
\* new Date().toISOString().split("T")[0]
DateOf(ms) == "D" \o ToString(ms \div TicksPerDay)

\* new Date().toISOString()
IsoString(ms) == DateOf(ms) \o "T" \o ToString(ms % TicksPerDay)

(***************************************************************************)
(* Result<T> and ErrorCode                                                 *)
(***************************************************************************)
ErrorCode ==
  {"AI_UNAVAILABLE", "AI_RATE_LIMITED", "AI_INVALID_RESPONSE",
   "AI_MODEL_NOT_FOUND", "SCRAPER_FAILED", "SCRAPER_TIMEOUT",
   "SCRAPER_RATE_LIMITED", "NO_DATA_AVAILABLE", "INVALID_DATA_FORMAT",
   "MISSING_ENV_VAR", "INVALID_CONFIG", "UNKNOWN_ERROR"}

\* success(output) for a GenerationOutput
success(drafts, tokensUsed) ==
  [success |-> TRUE, code |-> "", drafts |-> drafts, tokensUsed |-> tokensUsed]

\* fail(code, message, details)
fail(code) ==
  [success |-> FALSE, code |-> code, drafts |-> <<>>, tokensUsed |-> 0]

NoResult == [success |-> FALSE, code |-> "none", drafts |-> <<>>, tokensUsed |-> 0]

(***************************************************************************)
(* Texts and JSON documents                                                *)
(***************************************************************************)
NoDoc == [kind |-> "none", items |-> <<>>]

\* Tokens of a response text.
Fence == [k |-> "fence", w |-> "fence", doc |-> NoDoc]
Word(w) == [k |-> "word", w |-> w, doc |-> NoDoc]
Ws == [k |-> "ws", w |-> " ", doc |-> NoDoc]
Json(doc) == [k |-> "json", w |-> "", doc |-> doc]

\* A JSON array, and JSON documents that are not arrays.
Array(items) == [kind |-> "array", items |-> items]
Scalar(kind) == [kind |-> kind, items |-> <<>>]

\* An entry of the array as parseResponse reads it: the seven properties of
\* Partial<TweetDraft>.  A primitive or a nested array has none of them.
NonObject(kind) ==
  [kind |-> kind, id |-> Undefined, content |-> Undefined, source |-> Undefined,
   context |-> Undefined, confidence |-> Undefined, createdAt |-> Undefined,
   metadata |-> Undefined]

\* String.prototype.trim on a token sequence.
RECURSIVE TrimStart(_)
TrimStart(text) ==
  IF text # <<>> /\ Head(text).k = "ws" THEN TrimStart(Tail(text)) ELSE text

RECURSIVE TrimEnd(_)
TrimEnd(text) ==
  IF text # <<>> /\ text[Len(text)].k = "ws"
  THEN TrimEnd(SubSeq(text, 1, Len(text) - 1))
  ELSE text

Trim(text) == TrimEnd(TrimStart(text))

\* startsWith on the json-tagged fence: the fence immediately followed by a word
\* that begins with "json".
StartsWithFenceJson(text) ==
  /\ Len(text) >= 2
  /\ text[1].k = "fence"
  /\ text[2].k = "word"
  /\ text[2].w \in {"json", "jsonc"}

\* slice(7) after the json-tagged fence: the fence and the four letters go, the
\* rest of a longer word stays.
SliceFenceJson(text) ==
  IF text[2].w = "json"
  THEN SubSeq(text, 3, Len(text))
  ELSE <<Word("c")>> \o SubSeq(text, 3, Len(text))

StartsWithFence(text) == Len(text) >= 1 /\ text[1].k = "fence"

EndsWithFence(text) == Len(text) >= 1 /\ text[Len(text)].k = "fence"

\* JSON.parse: surrounding whitespace is accepted, anything else but one
\* document is a SyntaxError.
JSONparse(text) ==
  LET t == Trim(text)
  IN IF Len(t) = 1 /\ t[1].k = "json"
     THEN [ok |-> TRUE, doc |-> t[1].doc]
     ELSE [ok |-> FALSE, doc |-> NoDoc]

DefaultConfidenceTenths == 5

\* A repair whose synthesized id leaves the index out.
completeDraftUnindexed(draft, index, ms) ==
  [id |-> Or(draft.id, Str("draft-" \o ToString(ms))),
   content |-> Or(draft.content, Str("")),
   source |-> Or(draft.source, Str("mixed")),
   context |-> Or(draft.context, Str("")),
   confidence |-> Or(draft.confidence, Num(DefaultConfidenceTenths)),
   createdAt |-> Or(draft.createdAt, Str(IsoString(ms))),
   metadata |-> Or(draft.metadata, Undefined)]

\* The object literal of parsed.map: every property through ||.
completeDraft(draft, index, ms) ==
  [id |-> Or(draft.id, Str("draft-" \o ToString(ms) \o "-" \o ToString(index))),
   content |-> Or(draft.content, Str("")),
   source |-> Or(draft.source, Str("mixed")),
   context |-> Or(draft.context, Str("")),
   confidence |-> Or(draft.confidence, Num(DefaultConfidenceTenths)),
   createdAt |-> Or(draft.createdAt, Str(IsoString(ms))),
   metadata |-> Or(draft.metadata, Undefined)]

ParsedNull == [isNull |-> TRUE, drafts |-> <<>>]

\* A fence stripping that takes the opening fence off and leaves the closing one.
stripFencesOpeningOnly(text) ==
  LET trimmed == Trim(text)
  IN IF StartsWithFenceJson(trimmed) THEN SliceFenceJson(trimmed)
     ELSE IF StartsWithFence(trimmed) THEN Tail(trimmed)
     ELSE trimmed

\* The fence stripping of parseResponse, up to the text handed to JSON.parse.
stripFences(text) ==
  LET trimmed == Trim(text)
      opened == IF StartsWithFenceJson(trimmed) THEN SliceFenceJson(trimmed)
                ELSE IF StartsWithFence(trimmed) THEN Tail(trimmed)
                ELSE trimmed
  IN IF EndsWithFence(opened) THEN SubSeq(opened, 1, Len(opened) - 1) ELSE opened

\* A parseResponse that takes a document that is not an array for no drafts.
parseResponseLenient(text, ms) ==
  LET parsed == JSONparse(stripFences(text))
  IN IF ~parsed.ok THEN ParsedNull
     ELSE IF parsed.doc.kind # "array" THEN [isNull |-> FALSE, drafts |-> <<>>]
     ELSE IF \E i \in 1..Len(parsed.doc.items) : parsed.doc.items[i].kind = "null"
     THEN ParsedNull
     ELSE [isNull |-> FALSE,
           drafts |-> [i \in 1..Len(parsed.doc.items) |->
                         completeDraft(parsed.doc.items[i], i - 1, ms)]]

\* parseResponse: null on a SyntaxError, on a non-array, and on the
\* TypeError of reading a property of a null entry.
parseResponse(text, ms) ==
  LET parsed == JSONparse(stripFences(text))
  IN IF ~parsed.ok THEN ParsedNull
     ELSE IF parsed.doc.kind # "array" THEN ParsedNull
     ELSE IF \E i \in 1..Len(parsed.doc.items) : parsed.doc.items[i].kind = "null"
     THEN ParsedNull
     ELSE [isNull |-> FALSE,
           drafts |-> [i \in 1..Len(parsed.doc.items) |->
                         completeDraft(parsed.doc.items[i], i - 1, ms)]]

(***************************************************************************)
(* GenerationInput as it arrives: JSON cast to the type, never validated   *)
(***************************************************************************)
NoArray == [t |-> "undefined", items |-> <<>>]
ArrayOf(items) == [t |-> "array", items |-> items]

\* A NewsItem or TwitterPost, or a null standing where one should be.
Item(label) == [t |-> "object", label |-> label]
NullItem == [t |-> "null", label |-> ""]

NoOnchain ==
  [t |-> "undefined", tvl |-> Undefined, tvlChange24h |-> Undefined,
   tvlChange7d |-> Undefined, volume24h |-> Undefined, fees24h |-> Undefined,
   transactions24h |-> Undefined, activeAddresses24h |-> Undefined]

Onchain(tvl, change24h, tx24h) ==
  [NoOnchain EXCEPT !.t = "object", !.tvl = tvl, !.tvlChange24h = change24h,
                    !.transactions24h = tx24h]

GenerationInput(scrapeFirst, news, tweets, onchainData) ==
  [t |-> "object", scrapeFirst |-> scrapeFirst, news |-> news, tweets |-> tweets,
   onchainData |-> onchainData]

\* const scrapedInput: GenerationInput = {}
EmptyInput == GenerationInput(Undefined, NoArray, NoArray, NoOnchain)

\* An input that was not passed at all (saveDrafts' optional parameter).
NoInput == [EmptyInput EXCEPT !.t = "undefined"]

\* input.news?.length (0 when the property is absent: both are falsy)
LengthOf(arr) == IF arr.t = "array" THEN Len(arr.items) ELSE 0

\* formatNumber(num): the comparisons coerce anything, num.toString()
\* is a TypeError on null.
formatNumberThrows(num) == num.t = "null"

\* x.toFixed(1): only a number has the method.
toFixedThrows(x) == x.t # "number"

\* x.toLocaleString(): a TypeError on null.
toLocaleStringThrows(x) == x.t = "null"

\* The forEach over a list reads properties of every element.
forEachThrows(arr) == \E i \in 1..Len(arr.items) : arr.items[i].t = "null"

\* The on-chain section of buildUserPrompt.
onchainSectionThrows(oc) ==
  \/ /\ oc.tvl # Undefined
     /\ \/ formatNumberThrows(oc.tvl)
        \/ oc.tvlChange24h # Undefined /\ toFixedThrows(oc.tvlChange24h)
        \/ oc.tvlChange7d # Undefined /\ toFixedThrows(oc.tvlChange7d)
  \/ oc.volume24h # Undefined /\ formatNumberThrows(oc.volume24h)
  \/ oc.fees24h # Undefined /\ formatNumberThrows(oc.fees24h)
  \/ oc.transactions24h # Undefined /\ toLocaleStringThrows(oc.transactions24h)
  \/ oc.activeAddresses24h # Undefined /\ toLocaleStringThrows(oc.activeAddresses24h)

\* buildUserPrompt: the sections it renders, or the TypeError it dies of.
buildUserPrompt(in) ==
  LET hasNews == LengthOf(in.news) > 0
      hasTweets == LengthOf(in.tweets) > 0
      hasOnchain == in.onchainData.t # "undefined"
  IN [threw |-> \/ hasNews /\ forEachThrows(in.news)
                \/ hasTweets /\ forEachThrows(in.tweets)
                \/ hasOnchain /\ onchainSectionThrows(in.onchainData),
      news |-> IF hasNews THEN in.news.items ELSE <<>>,
      tweets |-> IF hasTweets THEN in.tweets.items ELSE <<>>,
      onchain |-> hasOnchain,
      fallback |-> ~hasNews /\ ~hasTweets /\ ~hasOnchain]

(***************************************************************************)
(* The generation backend as generateTweets sees it                        *)
(***************************************************************************)
TextBlock(text) == [type |-> "text", text |-> text]
ToolUseBlock == [type |-> "tool_use", text |-> <<>>]

\* messages.create resolves to a Message ...
Responds(content) ==
  [kind |-> "response", status |-> Undefined, content |-> content,
   input_tokens |-> 2, output_tokens |-> 3]

\* ... or throws an error that may carry a status.
Throws(status) ==
  [kind |-> "throw", status |-> status, content |-> <<>>,
   input_tokens |-> 0, output_tokens |-> 0]

\* response.content.find((block) => block.type === "text")
RECURSIVE findTextBlock(_)
findTextBlock(content) ==
  IF content = <<>> THEN [found |-> FALSE, text |-> <<>>]
  ELSE IF Head(content).type = "text" THEN [found |-> TRUE, text |-> Head(content).text]
  ELSE findTextBlock(Tail(content))

\* A classification that knows 401 but not 403.
classifyErrorWithout403(status) ==
  IF status = Num(401) THEN fail("AI_UNAVAILABLE")
  ELSE IF status = Num(429) THEN fail("AI_RATE_LIMITED")
  ELSE IF status = Num(404) THEN fail("AI_MODEL_NOT_FOUND")
  ELSE fail("UNKNOWN_ERROR")

\* The catch block of generateTweets.
classifyError(status) ==
  IF status = Num(401) \/ status = Num(403) THEN fail("AI_UNAVAILABLE")
  ELSE IF status = Num(429) THEN fail("AI_RATE_LIMITED")
  ELSE IF status = Num(404) THEN fail("AI_MODEL_NOT_FOUND")
  ELSE fail("UNKNOWN_ERROR")

\* generateTweets from the moment messages.create settles.
generateTweetsSettle(backend, ms) ==
  IF backend.kind = "throw" THEN classifyError(backend.status)
  ELSE LET textBlock == findTextBlock(backend.content)
       IN IF ~textBlock.found THEN fail("AI_INVALID_RESPONSE")
          ELSE LET drafts == parseResponse(textBlock.text, ms)
               IN IF drafts.isNull THEN fail("AI_INVALID_RESPONSE")
                  ELSE success(drafts.drafts,
                               backend.input_tokens + backend.output_tokens)

(***************************************************************************)
(* Inputs the checks range over                                            *)
(***************************************************************************)
\* Objects a response array may hold: each property absent, present and
\* falsy, or present and truthy.
DraftObjects ==
  [kind : {"object"},
   id : {Undefined, Str(""), Str("a1")},
   content : {Undefined, Str(""), Str("hi")},
   source : {Undefined, Str(""), Str("news")},
   context : {Undefined, Str("why")},
   confidence : {Undefined, Num(0), Num(9)},
   createdAt : {Undefined, Str(""), Str("D0T0")},
   metadata : {Undefined, Null, Obj("meta")}]

NonObjects == {NonObject(k) : k \in {"null", "number", "string", "boolean", "array"}}

Entries == DraftObjects \cup NonObjects

FullDraft ==
  [kind |-> "object", id |-> Str("a1"), content |-> Str("hi"),
   source |-> Str("news"), context |-> Str("why"), confidence |-> Num(9),
   createdAt |-> Str("D0T0"), metadata |-> Obj("meta")]

\* config.voice.tweetMaxLength, with TWEET_MAX_LENGTH not set.
tweetMaxLength == 280

\* "x".repeat(n)
RECURSIVE Repeated(_)
Repeated(n) ==
  IF n = 0 THEN ""
  ELSE IF n % 2 = 0 THEN LET half == Repeated(n \div 2) IN half \o half
  ELSE "x" \o Repeated(n - 1)

\* A draft whose content is one character over the maximum.
LongDraft == [FullDraft EXCEPT !.content = Str(Repeated(tweetMaxLength + 1))]

\* The scenario of the specification: [{"content":"hi"}]
ContentOnlyDraft == [NonObject("object") EXCEPT !.content = Str("hi")]

FewEntries == {FullDraft, ContentOnlyDraft, NonObject("number"), NonObject("null")}

SeqsUpTo(S, n) == UNION {[1..k -> S] : k \in 0..n}

FewDocs ==
  {Array(items) : items \in SeqsUpTo(FewEntries, MaxEntries)}
    \cup {Scalar(k) : k \in {"object", "number", "string", "null"}}

Docs == FewDocs \cup {Array(<<e>>) : e \in Entries}

\* Ways a model dresses its answer.
Wrappings(doc) ==
  {<<Json(doc)>>,
   <<Ws, Json(doc), Ws>>,
   <<Fence, Word("json"), Ws, Json(doc), Ws, Fence>>,
   <<Fence, Ws, Json(doc), Ws, Fence>>,
   <<Ws, Fence, Word("json"), Ws, Json(doc), Ws, Fence, Ws>>,
   <<Fence, Json(doc), Fence>>,
   <<Fence, Word("js"), Ws, Json(doc), Ws, Fence>>,
   <<Word("Here"), Ws, Json(doc)>>}

Texts ==
  {<<Json(doc)>> : doc \in Docs}
    \cup UNION {Wrappings(doc) : doc \in FewDocs}
    \cup {<<>>, <<Word("Sorry")>>, <<Json(Array(<<LongDraft>>))>>}

FewTexts == {<<Json(Array(<<FullDraft>>))>>, <<Json(Array(<<ContentOnlyDraft>>))>>,
             <<Word("Sorry")>>}

Statuses == {Undefined, Num(400), Num(401), Num(403), Num(404), Num(429),
             Num(500), Num(529)}

Backends ==
  {Throws(st) : st \in Statuses}
    \cup {Responds(<<TextBlock(text)>>) : text \in Texts}
    \cup {Responds(<<ToolUseBlock, TextBlock(text)>>) : text \in FewTexts}
    \cup {Responds(<<TextBlock(text), TextBlock(<<Json(Array(<<>>))>>)>>) : text \in FewTexts}
    \cup {Responds(<<>>), Responds(<<ToolUseBlock>>)}

FewBackends ==
  {Throws(Num(429)), Throws(Undefined), Responds(<<ToolUseBlock>>)}
    \cup {Responds(<<TextBlock(text)>>) : text \in FewTexts}

NewsValues ==
  {NoArray, ArrayOf(<<>>), ArrayOf(<<Item("n1")>>), ArrayOf(<<Item("n1"), Item("n2")>>),
   ArrayOf(<<NullItem>>)}

TweetsValues == {NoArray, ArrayOf(<<Item("t1")>>), ArrayOf(<<NullItem>>)}

OnchainValues ==
  {NoOnchain}
    \cup {Onchain(tvl, ch, tx) : tvl \in {Undefined, Num(1200), Null},
                                 ch \in {Undefined, Num(3), Str("3")},
                                 tx \in {Undefined, Num(1500), Null}}

GenerationInputs ==
  {GenerationInput(Undefined, n, t, o) :
     n \in NewsValues, t \in TweetsValues, o \in OnchainValues}

\* mockInput of the command-line entry point
mockInput ==
  GenerationInput(Undefined, ArrayOf(<<Item("n1")>>), ArrayOf(<<Item("t1")>>),
                  Onchain(Num(1200), Num(3), Num(1500)))

(***************************************************************************)
(* generateTweets, called on its own                                       *)
(***************************************************************************)
\* The synchronous head of generateTweets: both prompts are built before
\* the try block is entered, then messages.create is invoked.
GenCall ==
  /\ gpc = "called"
  /\ IF buildUserPrompt(gInput).threw
     THEN gpc' = "rejected" /\ gCalls' = gCalls
     ELSE gpc' = "awaiting" /\ gCalls' = gCalls + 1
  /\ UNCHANGED <<gInput, gBackend, gResult>>
  /\ UNCHANGED <<now, storeVars, reqVars, connVars, dashVars, cardVars>>

\* messages.create settles and the rest of the function runs.
GenSettle ==
  /\ gpc = "awaiting"
  /\ gResult' = generateTweetsSettle(gBackend, now)
  /\ gpc' = "resolved"
  /\ UNCHANGED <<gInput, gBackend, gCalls>>
  /\ UNCHANGED <<now, storeVars, reqVars, connVars, dashVars, cardVars>>

(***************************************************************************)
(* The output store                                                        *)
(***************************************************************************)
\* path.join(outputDir, date + ".json")
filePath(date) == date \o ".json"

SaveOk(path) == [success |-> TRUE, code |-> "", path |-> path]
SaveFail == [success |-> FALSE, code |-> "UNKNOWN_ERROR", path |-> ""]
NoSave == [success |-> FALSE, code |-> "none", path |-> ""]

\* The TweetDraftsOutput that saveDrafts serialises.  JSON.stringify leaves
\* out the properties that are undefined, which is how they are read back.
TweetDraftsOutput(drafts, inp, ms) ==
  [date |-> DateOf(ms), generatedAt |-> IsoString(ms), drafts |-> drafts,
   input |-> inp]

\* A save that clears the directory before it writes.
saveDraftsClearing(dir, drafts, inp, ms, writable) ==
  IF writable
  THEN [result |-> SaveOk(filePath(DateOf(ms))),
        dir |-> (filePath(DateOf(ms)) :> TweetDraftsOutput(drafts, inp, ms))]
  ELSE [result |-> SaveFail, dir |-> dir]

\* A save that appends to the drafts already stored for the date.
saveDraftsAppending(dir, drafts, inp, ms, writable) ==
  LET path == filePath(DateOf(ms))
      before == IF path \in DOMAIN dir THEN dir[path].drafts ELSE <<>>
  IN IF writable
     THEN [result |-> SaveOk(path),
           dir |-> (path :> TweetDraftsOutput(before \o drafts, inp, ms)) @@ dir]
     ELSE [result |-> SaveFail, dir |-> dir]

\* A save that keeps the input already stored for the date.
saveDraftsKeepingInput(dir, drafts, inp, ms, writable) ==
  LET path == filePath(DateOf(ms))
      kept == IF path \in DOMAIN dir THEN dir[path].input ELSE inp
  IN IF writable
     THEN [result |-> SaveOk(path),
           dir |-> (path :> TweetDraftsOutput(drafts, kept, ms)) @@ dir]
     ELSE [result |-> SaveFail, dir |-> dir]

\* saveDrafts on directory dir: writeFileSync replaces the file of the
\* date; when the directory or the file cannot be written the catch block
\* returns the failure and the directory is as before.
saveDrafts(dir, drafts, inp, ms, writable) ==
  IF writable
  THEN [result |-> SaveOk(filePath(DateOf(ms))),
        dir |-> (filePath(DateOf(ms)) :> TweetDraftsOutput(drafts, inp, ms)) @@ dir]
  ELSE [result |-> SaveFail, dir |-> dir]

(***************************************************************************)
(* POST /api/drafts                                                        *)
(***************************************************************************)
Reqs == 1..NumReqs

NoResponse ==
  [status |-> 0, code |-> "", drafts |-> <<>>, tokensUsed |-> 0, input |-> NoInput]

ErrorResponse(status, code) == [NoResponse EXCEPT !.status = status, !.code = code]

OkResponse(res, inp) ==
  [status |-> 200, code |-> "", drafts |-> res.drafts,
   tokensUsed |-> res.tokensUsed, input |-> inp]

\* request.json(): a body that is not JSON makes it throw.
BadBody == [ok |-> FALSE, value |-> NoInput]
Body(value) == [ok |-> TRUE, value |-> value]

shouldScrape(b) ==
  /\ b.scrapeFirst # Bool(FALSE)
  /\ LengthOf(b.news) = 0
  /\ LengthOf(b.tweets) = 0
  /\ b.onchainData.t = "undefined"

\* A test that lets every input through.
hasDataAlways(inp) == inp = inp

hasData(inp) ==
  \/ LengthOf(inp.news) > 0
  \/ LengthOf(inp.tweets) > 0
  \/ inp.onchainData.t # "undefined"

\* What a connector call may end in, as POST tells the cases apart.
ScrapeSuccess(list, oc) == [kind |-> "success", list |-> list, oc |-> oc]
ScrapeFailure(code) == [kind |-> code, list |-> NoArray, oc |-> NoOnchain]
ScrapeThrow == [kind |-> "throw", list |-> NoArray, oc |-> NoOnchain]

\* A connector that has not returned.
NoScrape == [kind |-> "none", list |-> NoArray, oc |-> NoOnchain]

TwitterOutcomes ==
  {ScrapeSuccess(ArrayOf(<<Item("t1")>>), NoOnchain),
   ScrapeSuccess(ArrayOf(<<>>), NoOnchain),
   ScrapeFailure("MISSING_ENV_VAR"), ScrapeThrow}

NewsOutcomes ==
  {ScrapeSuccess(ArrayOf(<<Item("n1")>>), NoOnchain),
   ScrapeSuccess(ArrayOf(<<>>), NoOnchain),
   ScrapeFailure("NO_DATA_AVAILABLE"), ScrapeThrow}

OnchainOutcomes ==
  {ScrapeSuccess(NoArray, Onchain(Num(1200), Num(3), Undefined)),
   ScrapeFailure("SCRAPER_FAILED"), ScrapeThrow}

\* if (result.success && result.data.length > 0) scrapedInput.x = result.data
takesList(outcome) == outcome.kind = "success" /\ LengthOf(outcome.list) > 0

\* if (onchainResult.success) scrapedInput.onchainData = onchainResult.data
takesOnchain(outcome) == outcome.kind = "success"

\* else if (!result.success) scrapeErrors.push(...), and the same in catch
pushesError(outcome) == outcome.kind # "success"

InFlight(r) == pc[r] \notin {"idle", "done"}

\* From the hasData check to the call of messages.create: one synchronous
\* stretch; made is the number of invocations the request made before.  A
\* TypeError in buildUserPrompt rejects generateTweets, and the await
\* rethrows it into POST's outer catch.
EnterGenerate(r, inp, made) ==
  /\ input' = [input EXCEPT ![r] = inp]
  /\ IF ~hasData(inp)
     THEN /\ pc' = [pc EXCEPT ![r] = "done"]
          /\ response' = [response EXCEPT ![r] = ErrorResponse(400, "")]
          /\ calls' = [calls EXCEPT ![r] = made]
     ELSE IF buildUserPrompt(inp).threw
     THEN /\ pc' = [pc EXCEPT ![r] = "done"]
          /\ response' = [response EXCEPT ![r] = ErrorResponse(500, "")]
          /\ calls' = [calls EXCEPT ![r] = made]
     ELSE /\ pc' = [pc EXCEPT ![r] = "awaitBackend"]
          /\ response' = [response EXCEPT ![r] = NoResponse]
          /\ calls' = [calls EXCEPT ![r] = made + 1]

\* A request arrives; POST runs to its first await on a connector or on
\* the backend.
Receive(r, bodies) ==
  /\ ~InFlight(r)
  /\ \E b \in bodies :
       /\ body' = [body EXCEPT ![r] = b]
       /\ scrapedInput' = [scrapedInput EXCEPT ![r] = EmptyInput]
       /\ scrapeErrors' = [scrapeErrors EXCEPT ![r] = <<>>]
       /\ result' = [result EXCEPT ![r] = NoResult]
       /\ saveResult' = [saveResult EXCEPT ![r] = NoSave]
       /\ overlapped' = [overlapped EXCEPT ![r] = \E q \in Reqs \ {r} : InFlight(q)]
       /\ IF ~b.ok
          THEN /\ pc' = [pc EXCEPT ![r] = "done"]
               /\ response' = [response EXCEPT ![r] = ErrorResponse(500, "")]
               /\ input' = [input EXCEPT ![r] = NoInput]
               /\ calls' = [calls EXCEPT ![r] = 0]
          ELSE IF shouldScrape(b.value)
          THEN /\ pc' = [pc EXCEPT ![r] = "scrapeTwitter"]
               /\ response' = [response EXCEPT ![r] = NoResponse]
               /\ input' = [input EXCEPT ![r] = b.value]
               /\ calls' = [calls EXCEPT ![r] = 0]
          ELSE EnterGenerate(r, b.value, 0)
  /\ UNCHANGED <<now, storeVars, genVars, connVars, dashVars, cardVars>>

\* A Twitter step that gives the request up when the connector fails.
ScrapeTwitterDoneAborting(r) ==
  /\ pc[r] = "scrapeTwitter"
  /\ \E outcome \in TwitterOutcomes :
       /\ scrapedInput' = [scrapedInput EXCEPT ![r] =
                             IF takesList(outcome)
                             THEN [@ EXCEPT !.tweets = outcome.list] ELSE @]
       /\ scrapeErrors' = [scrapeErrors EXCEPT ![r] =
                             IF pushesError(outcome) THEN Append(@, "Twitter") ELSE @]
       /\ IF pushesError(outcome)
          THEN /\ pc' = [pc EXCEPT ![r] = "done"]
               /\ response' = [response EXCEPT ![r] = ErrorResponse(500, "")]
          ELSE /\ pc' = [pc EXCEPT ![r] = "scrapeNews"]
               /\ UNCHANGED response
  /\ UNCHANGED <<body, input, result, saveResult, calls, overlapped>>
  /\ UNCHANGED <<now, storeVars, genVars, connVars, dashVars, cardVars>>

\* await scrapeTwitter() settles.
ScrapeTwitterDone(r) ==
  /\ pc[r] = "scrapeTwitter"
  /\ \E outcome \in TwitterOutcomes :
       /\ scrapedInput' = [scrapedInput EXCEPT ![r] =
                             IF takesList(outcome)
                             THEN [@ EXCEPT !.tweets = outcome.list] ELSE @]
       /\ scrapeErrors' = [scrapeErrors EXCEPT ![r] =
                             IF pushesError(outcome) THEN Append(@, "Twitter") ELSE @]
  /\ pc' = [pc EXCEPT ![r] = "scrapeNews"]
  /\ UNCHANGED <<body, input, result, saveResult, response, calls, overlapped>>
  /\ UNCHANGED <<now, storeVars, genVars, connVars, dashVars, cardVars>>

\* await scrapeNews() settles.
ScrapeNewsDone(r) ==
  /\ pc[r] = "scrapeNews"
  /\ \E outcome \in NewsOutcomes :
       /\ scrapedInput' = [scrapedInput EXCEPT ![r] =
                             IF takesList(outcome)
                             THEN [@ EXCEPT !.news = outcome.list] ELSE @]
       /\ scrapeErrors' = [scrapeErrors EXCEPT ![r] =
                             IF pushesError(outcome) THEN Append(@, "News") ELSE @]
  /\ pc' = [pc EXCEPT ![r] = "scrapeOnchain"]
  /\ UNCHANGED <<body, input, result, saveResult, response, calls, overlapped>>
  /\ UNCHANGED <<now, storeVars, genVars, connVars, dashVars, cardVars>>

\* await scrapeOnchainData() settles; input = scrapedInput, and on to the
\* generation.
ScrapeOnchainDone(r) ==
  /\ pc[r] = "scrapeOnchain"
  /\ \E outcome \in OnchainOutcomes :
       LET scraped == IF takesOnchain(outcome)
                      THEN [scrapedInput[r] EXCEPT !.onchainData = outcome.oc]
                      ELSE scrapedInput[r]
       IN /\ scrapedInput' = [scrapedInput EXCEPT ![r] = scraped]
          /\ scrapeErrors' = [scrapeErrors EXCEPT ![r] =
                                IF pushesError(outcome) THEN Append(@, "On-chain") ELSE @]
          /\ EnterGenerate(r, scraped, calls[r])
  /\ UNCHANGED <<body, result, saveResult, overlapped>>
  /\ UNCHANGED <<now, storeVars, genVars, connVars, dashVars, cardVars>>

\* messages.create settles and generateTweets resolves.
BackendSettles(r, backends) ==
  /\ pc[r] = "awaitBackend"
  /\ \E backend \in backends :
       result' = [result EXCEPT ![r] = generateTweetsSettle(backend, now)]
  /\ pc' = [pc EXCEPT ![r] = "generated"]
  /\ UNCHANGED <<body, scrapedInput, scrapeErrors, input, saveResult, response, calls,
               overlapped>>
  /\ UNCHANGED <<now, storeVars, genVars, connVars, dashVars, cardVars>>

\* A resumption that answers 500 when the drafts could not be saved.
PostResumeFailingOnSave(r) ==
  /\ pc[r] = "generated"
  /\ pc' = [pc EXCEPT ![r] = "done"]
  /\ IF ~result[r].success
     THEN /\ response' = [response EXCEPT ![r] = ErrorResponse(500, result[r].code)]
          /\ UNCHANGED <<saveResult, storeVars>>
     ELSE \E writable \in BOOLEAN :
            LET saved == saveDrafts(store, result[r].drafts, input[r], now, writable)
                path == saved.result.path
            IN /\ store' = saved.dir
               /\ saveResult' = [saveResult EXCEPT ![r] = saved.result]
               /\ lastSaver' = IF saved.result.success
                               THEN (path :> r) @@ lastSaver
                               ELSE lastSaver
               /\ response' = [response EXCEPT ![r] =
                                 IF saved.result.success
                                 THEN OkResponse(result[r], input[r])
                                 ELSE ErrorResponse(500, saved.result.code)]
  /\ UNCHANGED <<body, scrapedInput, scrapeErrors, input, result, calls, overlapped>>
  /\ UNCHANGED <<now, genVars, connVars, dashVars, cardVars>>

\* POST resumes after await generateTweets(input): the failure goes out as
\* a 500, a success is saved (whatever becomes of the save) and returned.
PostResume(r) ==
  /\ pc[r] = "generated"
  /\ pc' = [pc EXCEPT ![r] = "done"]
  /\ IF ~result[r].success
     THEN /\ response' = [response EXCEPT ![r] = ErrorResponse(500, result[r].code)]
          /\ UNCHANGED <<saveResult, storeVars>>
     ELSE \E writable \in BOOLEAN :
            LET saved == saveDrafts(store, result[r].drafts, input[r], now, writable)
                path == saved.result.path
            IN /\ store' = saved.dir
               /\ saveResult' = [saveResult EXCEPT ![r] = saved.result]
               /\ lastSaver' = IF saved.result.success
                               THEN (path :> r) @@ lastSaver
                               ELSE lastSaver
               /\ response' = [response EXCEPT ![r] = OkResponse(result[r], input[r])]
  /\ UNCHANGED <<body, scrapedInput, scrapeErrors, input, result, calls, overlapped>>
  /\ UNCHANGED <<now, genVars, connVars, dashVars, cardVars>>

\* Time passes.
Tick ==
  /\ now < MaxClock
  /\ now' = now + 1
  /\ UNCHANGED <<storeVars, reqVars, genVars, connVars, dashVars, cardVars>>

(***************************************************************************)
(* Specifications                                                          *)
(***************************************************************************)
RequestBodies ==
  {BadBody,
   Body(EmptyInput),
   Body(GenerationInput(Bool(TRUE), NoArray, NoArray, NoOnchain)),
   Body(GenerationInput(Bool(FALSE), NoArray, NoArray, NoOnchain)),
   Body(GenerationInput(Bool(TRUE), ArrayOf(<<Item("n9")>>), NoArray, NoOnchain)),
   Body(GenerationInput(Undefined, ArrayOf(<<NullItem>>), NoArray, NoOnchain))}

\* What the backend does for a request.
RequestBackends ==
  {Throws(Num(429)), Responds(<<ToolUseBlock>>),
   Responds(<<TextBlock(<<Json(Array(<<FullDraft>>))>>)>>)}

\* Two answers that differ in every draft property.
OtherDraft ==
  [kind |-> "object", id |-> Str("b2"), content |-> Str("gm"),
   source |-> Str("onchain"), context |-> Str("tvl"), confidence |-> Num(7),
   createdAt |-> Str("D0T1"), metadata |-> Undefined]

\* A second draft the backend gave the id of FullDraft.
TwinDraft ==
  [FullDraft EXCEPT !.content = Str("yo"), !.source = Str("twitter"),
                    !.createdAt = Str("D0T1")]

ConcurrentBackends ==
  {Throws(Num(429)),
   Responds(<<TextBlock(<<Json(Array(<<FullDraft>>))>>)>>),
   Responds(<<TextBlock(<<Json(Array(<<OtherDraft>>))>>)>>)}

ConcurrentBodies ==
  {Body(GenerationInput(Undefined, ArrayOf(<<Item("n9")>>), NoArray, NoOnchain)),
   Body(GenerationInput(Undefined, NoArray, ArrayOf(<<Item("t9")>>), NoOnchain))}

StoreInit == store = <<>> /\ lastSaver = <<>>

ReqInit ==
  /\ pc = [r \in Reqs |-> "idle"]
  /\ body = [r \in Reqs |-> BadBody]
  /\ scrapedInput = [r \in Reqs |-> EmptyInput]
  /\ scrapeErrors = [r \in Reqs |-> <<>>]
  /\ input = [r \in Reqs |-> NoInput]
  /\ result = [r \in Reqs |-> NoResult]
  /\ saveResult = [r \in Reqs |-> NoSave]
  /\ response = [r \in Reqs |-> NoResponse]
  /\ calls = [r \in Reqs |-> 0]
  /\ overlapped = [r \in Reqs |-> FALSE]

\* No connector runs.
ConnIdle ==
  /\ conn = "none"
  /\ cpc = "idle"
  /\ cIdx = 0
  /\ cItems = <<>>
  /\ cData = NoOnchain
  /\ cRequests = 0
  /\ cLog = <<>>
  /\ cResult = NoScrape
  /\ bearerToken = Undefined

\* Nothing was asked of the dashboard's routes; DRAFTS_DIR is not set.
NoLoad == [status |-> 0, drafts |-> <<>>, dates |-> <<>>, error |-> FALSE]
NoPatch == [status |-> 0, draft |-> Undefined]
ReviseIdle == [pc |-> "idle", status |-> 0, revisedContent |-> <<>>, tokensUsed |-> 0]

DashIdle ==
  /\ draftsDirEnv = Undefined
  /\ loaded = NoLoad
  /\ patched = NoPatch
  /\ revise = ReviseIdle

\* A card of a draft that reads "hi", with both dialogs closed: the
\* initial values of the useState calls.
CardIdle ==
  /\ storedContent = Str("hi")
  /\ localContent = Str("hi")
  /\ editOpen = FALSE
  /\ reviseOpen = FALSE
  /\ editedContent = Str("hi")
  /\ typedFeedback = Str("")
  /\ revisedContent = Null
  /\ error = Null
  /\ loading = FALSE
  /\ session = 0
  /\ asked = 0
  /\ revisedIn = 0
  /\ typed = FALSE

GenIdle ==
  /\ gpc = "unused"
  /\ gInput = NoInput
  /\ gBackend = Throws(Undefined)
  /\ gResult = NoResult
  /\ gCalls = 0

\* The dashboard's generation requests, one at a time.
Init == now = 0 /\ StoreInit /\ ReqInit /\ GenIdle /\ ConnIdle /\ DashIdle /\ CardIdle

Next ==
  \/ Receive(1, RequestBodies)
  \/ ScrapeTwitterDone(1)
  \/ ScrapeNewsDone(1)
  \/ ScrapeOnchainDone(1)
  \/ BackendSettles(1, RequestBackends)
  \/ PostResume(1)
  \/ Tick

Spec == Init /\ [][Next]_vars

\* Generation requests that carry their data, overlapping freely.
NextConcurrent ==
  \/ \E r \in Reqs :
       \/ Receive(r, ConcurrentBodies)
       \/ BackendSettles(r, ConcurrentBackends)
       \/ PostResume(r)
  \/ Tick

SpecConcurrent == Init /\ [][NextConcurrent]_vars

\* generateTweets on every input and every backend behaviour.
InitGen ==
  /\ now \in 0..MaxClock
  /\ StoreInit /\ ReqInit /\ ConnIdle /\ DashIdle /\ CardIdle
  /\ gpc = "called"
  /\ \/ gInput \in GenerationInputs /\ gBackend \in FewBackends
     \/ gInput = mockInput /\ gBackend \in Backends
  /\ gResult = NoResult
  /\ gCalls = 0

NextGen == GenCall \/ GenSettle

SpecGen == InitGen /\ [][NextGen]_vars

(***************************************************************************)
(* The command-line entry point (main of index.ts)                         *)
(***************************************************************************)
\* main after generateTweets(mockInput) has resolved: a failure ends the
\* process, a success is saved by saveDrafts(drafts), which is given no
\* input; the Result of the save is only logged.
CliSave ==
  /\ gpc = "resolved"
  /\ IF ~gResult.success
     THEN /\ gpc' = "exited"
          /\ UNCHANGED storeVars
     ELSE \E writable \in BOOLEAN :
            LET saved == saveDrafts(store, gResult.drafts, NoInput, now, writable)
            IN /\ store' = saved.dir
               /\ lastSaver' = IF saved.result.success
                               THEN (saved.result.path :> 0) @@ lastSaver
                               ELSE lastSaver
               /\ gpc' = IF saved.result.success THEN "saved" ELSE "unsaved"
  /\ UNCHANGED <<gInput, gBackend, gResult, gCalls>>
  /\ UNCHANGED <<now, reqVars, connVars, dashVars, cardVars>>

InitCli ==
  /\ now = 0
  /\ StoreInit /\ ReqInit /\ ConnIdle /\ DashIdle /\ CardIdle
  /\ gpc = "called"
  /\ gInput = mockInput
  /\ gBackend \in Backends
  /\ gResult = NoResult
  /\ gCalls = 0

NextCli == GenCall \/ GenSettle \/ CliSave \/ Tick

SpecCli == InitCli /\ [][NextCli]_vars

(***************************************************************************)
(* The news connector (scrapeNews)                                         *)
(***************************************************************************)
\* Feeds of NEWS_FEEDS, entries of a feed the model writes out one by one.
NumFeeds == 2

\* MAX_NEWS_AGE_MS: seven days.
MAX_NEWS_AGE_MS == 7 * TicksPerDay

\* parsed.items.slice(0, 30)
ItemsChecked == 30

\* allNews.slice(0, 10)
TopNews == 10

PrimaryKeywords == {"avalanche", "avax"}

AVALANCHE_KEYWORDS ==
  PrimaryKeywords \cup {"ava labs", "subnet", "c-chain", "p-chain", "x-chain", "avalanchego"}

\* An entry of a parsed feed.  pubDate is absent ("missing"), a string that
\* Date cannot parse ("invalid"), or a date whose time is at.  joined are the
\* keywords found in title + summary, spaced those found in title + " " +
\* summary: a keyword can straddle the seam in either.
FeedItem(title, pubDate, at, joined, spaced) ==
  [title |-> title, pubDate |-> pubDate, at |-> at, joined |-> joined,
   spaced |-> spaced]

\* isAvalancheRelated(title + summary)
isAvalancheRelated(item) == item.joined # {}

\* calculateRelevance(title, summary), in tenths.
RECURSIVE SumWeights(_)
SumWeights(keywords) ==
  IF keywords = {} THEN 0
  ELSE LET keyword == CHOOSE k \in keywords : TRUE
       IN (IF keyword \in PrimaryKeywords THEN 3 ELSE 1)
            + SumWeights(keywords \ {keyword})

calculateRelevance(item) ==
  LET score == SumWeights(item.spaced \cap AVALANCHE_KEYWORDS)
  IN IF score < 10 THEN score ELSE 10

\* const publishedAt = item.pubDate || new Date().toISOString()
publishedAtOf(item, ms) ==
  IF item.pubDate = "missing"
  THEN [pubDate |-> "date", at |-> ms]
  ELSE [pubDate |-> item.pubDate, at |-> item.at]

\* A freshness test that lets a date it cannot parse through.
isFreshUnlessParsed(published, ms) ==
  published.pubDate = "date" => ms - published.at <= MAX_NEWS_AGE_MS

\* isFresh(dateStr): the age of an unparseable date is NaN, and NaN <= x is
\* false.
isFresh(published, ms) ==
  /\ published.pubDate = "date"
  /\ ms - published.at <= MAX_NEWS_AGE_MS

\* The NewsItem pushed for an entry.
NewsItem(item, ms) ==
  [title |-> item.title, pubDate |-> publishedAtOf(item, ms).pubDate,
   at |-> publishedAtOf(item, ms).at, relevanceScore |-> calculateRelevance(item)]

\* The loop over the first entries of one parsed feed.
RECURSIVE collectNews(_, _)
collectNews(items, ms) ==
  IF items = <<>> THEN <<>>
  ELSE LET item == Head(items)
           rest == collectNews(Tail(items), ms)
       IN IF ~isFresh(publishedAtOf(item, ms), ms) THEN rest
          ELSE IF ~isAvalancheRelated(item) THEN rest
          ELSE <<NewsItem(item, ms)>> \o rest

FirstOf(items, n) == SubSeq(items, 1, IF Len(items) < n THEN Len(items) ELSE n)

\* Array.prototype.sort with (a, b) => time(b) - time(a): stable, most
\* recent first.
RECURSIVE sortByDateDesc(_)
sortByDateDesc(items) ==
  IF items = <<>> THEN <<>>
  ELSE LET last == items[Len(items)]
           sorted == sortByDateDesc(SubSeq(items, 1, Len(items) - 1))
           ahead == {i \in 1..Len(sorted) : sorted[i].at >= last.at}
           k == Cardinality(ahead)
       IN SubSeq(sorted, 1, k) \o <<last>> \o SubSeq(sorted, k + 1, Len(sorted))

\* The tail of scrapeNews, after the loop over the feeds.
newsResult(allNews) ==
  IF Len(allNews) = 0 THEN ScrapeSuccess(ArrayOf(<<>>), NoOnchain)
  ELSE ScrapeSuccess(ArrayOf(FirstOf(sortByDateDesc(allNews), TopNews)), NoOnchain)

\* What parser.parseURL gives for a feed: it rejects, or a parsed feed.
FeedThrows == [throws |-> TRUE, items |-> <<>>]
FeedParsed(items) == [throws |-> FALSE, items |-> items]

OnTopic == {"avax"}

StaleItem == FeedItem("ten days old", "date", 0 - 10 * TicksPerDay, OnTopic, OnTopic)
DayOldItem == FeedItem("one day old", "date", 0 - TicksPerDay, OnTopic, OnTopic)
EdgeItem == FeedItem("edge", "date", 1 - MAX_NEWS_AGE_MS, {"subnet"}, {"subnet"})
UndatedItem == FeedItem("undated", "missing", 0, OnTopic, OnTopic)
BadDateItem == FeedItem("bad date", "invalid", 0, OnTopic, OnTopic)
OffTopicItem == FeedItem("off topic", "date", 0, {}, {})
EveryKeywordItem ==
  FeedItem("every keyword", "date", 0, AVALANCHE_KEYWORDS, AVALANCHE_KEYWORDS)
SeamItem == FeedItem("seam", "date", 0, {"avax"}, {})

\* More fresh entries on topic than scrapeNews returns.
BulkItems ==
  [i \in 1..(TopNews + 1) |->
     FeedItem("bulk" \o ToString(i), "date", 0 - TicksPerDay, OnTopic, OnTopic)]

\* A feed whose only entry on topic comes after the entries that are checked.
LongItems ==
  [i \in 1..(ItemsChecked + 1) |-> IF i <= ItemsChecked THEN OffTopicItem ELSE DayOldItem]

NewsFeedOutcomes ==
  {FeedThrows, FeedParsed(<<>>), FeedParsed(<<StaleItem, DayOldItem>>),
   FeedParsed(<<EdgeItem, OffTopicItem>>), FeedParsed(<<UndatedItem, BadDateItem>>),
   FeedParsed(<<EveryKeywordItem, SeamItem>>), FeedParsed(BulkItems),
   FeedParsed(LongItems)}

\* What the connectors leave alone.
ConnFrame == UNCHANGED <<storeVars, reqVars, genVars, dashVars, cardVars, bearerToken, conn>>

\* The top of the loop over the feeds: the next feed is requested, or the
\* loop is over and scrapeNews returns.
NewsNextFeed(allNews) ==
  IF cIdx < NumFeeds
  THEN /\ cIdx' = cIdx + 1
       /\ cRequests' = cRequests + 1
       /\ cpc' = "fetch"
       /\ cResult' = cResult
  ELSE /\ cpc' = "done"
       /\ cResult' = newsResult(allNews)
       /\ UNCHANGED <<cIdx, cRequests>>

\* scrapeNews is called and awaits the first feed.
NewsStart ==
  /\ conn = "news" /\ cpc = "idle"
  /\ cItems' = <<>>
  /\ cIdx' = 1
  /\ cRequests' = 1
  /\ cpc' = "fetch"
  /\ UNCHANGED <<now, cData, cLog, cResult>>
  /\ ConnFrame

\* A feed step that gives the connector up when the feed rejects.
NewsFeedSettlesFailing ==
  /\ conn = "news" /\ cpc = "fetch"
  /\ \E outcome \in NewsFeedOutcomes :
       /\ cLog' = Append(cLog, [outcome |-> outcome, at |-> now])
       /\ IF outcome.throws
          THEN /\ cItems' = <<>>
               /\ cpc' = "done"
               /\ cResult' = ScrapeFailure("SCRAPER_FAILED")
               /\ UNCHANGED <<cIdx, cRequests>>
          ELSE /\ cItems' = cItems \o collectNews(FirstOf(outcome.items, ItemsChecked), now)
               /\ cpc' = "delay"
               /\ UNCHANGED <<cIdx, cRequests, cResult>>
  /\ UNCHANGED <<now, cData>>
  /\ ConnFrame

\* parser.parseURL settles: a rejection is logged and the next feed is
\* requested at once; a parsed feed is gone through and the delay begins.
NewsFeedSettles ==
  /\ conn = "news" /\ cpc = "fetch"
  /\ \E outcome \in NewsFeedOutcomes :
       /\ cLog' = Append(cLog, [outcome |-> outcome, at |-> now])
       /\ IF outcome.throws
          THEN /\ cItems' = cItems
               /\ NewsNextFeed(cItems)
          ELSE /\ cItems' = cItems \o collectNews(FirstOf(outcome.items, ItemsChecked), now)
               /\ cpc' = "delay"
               /\ UNCHANGED <<cIdx, cRequests, cResult>>
  /\ UNCHANGED <<now, cData>>
  /\ ConnFrame

\* The delay after a feed is over.
NewsDelayDone ==
  /\ conn = "news" /\ cpc = "delay"
  /\ NewsNextFeed(cItems)
  /\ UNCHANGED <<now, cItems, cData, cLog>>
  /\ ConnFrame

(***************************************************************************)
(* The social connector (scrapeTwitter)                                    *)
(***************************************************************************)
\* Accounts of AVALANCHE_ACCOUNTS the model goes through.
NumAccounts == 2

PlaceholderToken == Str("your-twitter-bearer-token")

BearerTokens == {Undefined, Str(""), PlaceholderToken, Str("token")}

\* A test that takes the placeholder for a credential.
tokenMissingUnlessPlaceholder(token) == ~Truthy(token)

\* !bearerToken || bearerToken === "your-twitter-bearer-token"
tokenMissing(token) == ~Truthy(token) \/ token = PlaceholderToken

\* A fetch that rejects, answers with a status that is not OK, or answers
\* OK with a body; has says whether the body holds the data asked for.
FetchThrows == [kind |-> "throw", has |-> FALSE, items |-> <<>>]
FetchNotOk == [kind |-> "notOk", has |-> FALSE, items |-> <<>>]
FetchOk(has, items) == [kind |-> "ok", has |-> has, items |-> items]

\* A tweet as the API returns it.
Tweet(id, at) == [title |-> id, at |-> at]

UserOutcomes == {FetchThrows, FetchNotOk, FetchOk(FALSE, <<>>), FetchOk(TRUE, <<>>)}

TweetsOutcomes ==
  {FetchThrows, FetchNotOk, FetchOk(FALSE, <<>>), FetchOk(TRUE, <<>>),
   FetchOk(TRUE, <<Tweet("t1", 0)>>), FetchOk(TRUE, <<Tweet("t2", 1), Tweet("t3", 0 - 1)>>)}

\* The TwitterPost pushed for a tweet of the account at index.
TwitterPost(tweet, index) ==
  [title |-> tweet.title, at |-> tweet.at, authorHandle |-> index]

\* A tail that takes no tweets for a success, as scrapeNews does.
twitterResultEmptyOk(allTweets) ==
  ScrapeSuccess(ArrayOf(sortByDateDesc(allTweets)), NoOnchain)

\* The tail of scrapeTwitter, after the loop over the accounts.
twitterResult(allTweets) ==
  IF Len(allTweets) = 0 THEN ScrapeFailure("NO_DATA_AVAILABLE")
  ELSE ScrapeSuccess(ArrayOf(sortByDateDesc(allTweets)), NoOnchain)

\* The top of the loop over the accounts.
TwitterNextAccount(allTweets) ==
  IF cIdx < NumAccounts
  THEN /\ cIdx' = cIdx + 1
       /\ cRequests' = cRequests + 1
       /\ cpc' = "fetchUser"
       /\ cResult' = cResult
  ELSE /\ cpc' = "done"
       /\ cResult' = twitterResult(allTweets)
       /\ UNCHANGED <<cIdx, cRequests>>

\* scrapeTwitter is called: without a credential it returns at once, with
\* one it looks the first account up.
TwitterStart ==
  /\ conn = "twitter" /\ cpc = "idle"
  /\ IF tokenMissing(bearerToken)
     THEN /\ cpc' = "done"
          /\ cResult' = ScrapeFailure("MISSING_ENV_VAR")
          /\ UNCHANGED <<cIdx, cItems, cRequests>>
     ELSE /\ cItems' = <<>>
          /\ cIdx' = 1
          /\ cRequests' = 1
          /\ cpc' = "fetchUser"
          /\ cResult' = cResult
  /\ UNCHANGED <<now, cData, cLog>>
  /\ ConnFrame

\* The lookup of the account settles.
TwitterUserSettles ==
  /\ conn = "twitter" /\ cpc = "fetchUser"
  /\ \E outcome \in UserOutcomes :
       /\ cLog' = Append(cLog, [outcome |-> outcome, at |-> now])
       /\ IF outcome.kind = "ok" /\ outcome.has
          THEN /\ cpc' = "fetchTweets"
               /\ cRequests' = cRequests + 1
               /\ UNCHANGED <<cIdx, cResult>>
          ELSE TwitterNextAccount(cItems)
  /\ UNCHANGED <<now, cItems, cData>>
  /\ ConnFrame

\* The request for the account's tweets settles.
TwitterTweetsSettles ==
  /\ conn = "twitter" /\ cpc = "fetchTweets"
  /\ \E outcome \in TweetsOutcomes :
       /\ cLog' = Append(cLog, [outcome |-> outcome, at |-> now])
       /\ IF outcome.kind = "ok"
          THEN /\ cItems' = cItems \o
                    (IF outcome.has
                     THEN [i \in 1..Len(outcome.items) |-> TwitterPost(outcome.items[i], cIdx)]
                     ELSE <<>>)
               /\ cpc' = "delay"
               /\ UNCHANGED <<cIdx, cRequests, cResult>>
          ELSE /\ cItems' = cItems
               /\ TwitterNextAccount(cItems)
  /\ UNCHANGED <<now, cData>>
  /\ ConnFrame

\* The delay after an account is over.
TwitterDelayDone ==
  /\ conn = "twitter" /\ cpc = "delay"
  /\ TwitterNextAccount(cItems)
  /\ UNCHANGED <<now, cItems, cData, cLog>>
  /\ ConnFrame

(***************************************************************************)
(* The metrics connector (scrapeOnchainData)                               *)
(***************************************************************************)
\* A body of the analytics backend: OK with a number, OK without it.
Metric(value) == FetchOk(TRUE, <<value>>)
NoMetric == FetchOk(FALSE, <<>>)

\* /v2/chains: the list may lack Avalanche.
ChainsOutcomes == {FetchThrows, FetchNotOk, NoMetric, Metric(1200)}

\* /v2/historicalChainTvl: a list of tvl points, oldest first.
HistoryOutcomes ==
  {FetchThrows, FetchNotOk, FetchOk(TRUE, <<>>), FetchOk(TRUE, <<1200>>),
   FetchOk(TRUE, <<1000, 1200>>),
   FetchOk(TRUE, <<800, 900, 900, 900, 900, 900, 900, 1000, 1200>>)}

SecondaryOutcomes == {FetchThrows, FetchNotOk, NoMetric, Metric(77)}

ExtraOutcomes == {FetchThrows, FetchOk(TRUE, <<>>)}

\* ((currentTvl - ago) / ago) * 100, ago falling back to currentTvl; whole
\* percents.
tvlChange(history, back) ==
  LET currentTvl == history[Len(history)]
      ago == IF Len(history) >= back /\ history[Len(history) - back + 1] # 0
             THEN history[Len(history) - back + 1]
             ELSE currentTvl
  IN ((currentTvl - ago) * 100) \div ago

\* The outer catch, and the non-OK answer of the primary query.
OnchainFails(code) ==
  /\ cpc' = "done"
  /\ cResult' = ScrapeFailure(code)
  /\ UNCHANGED <<cData, cRequests>>

\* The next query is sent.
OnchainGoes(next, data) ==
  /\ cpc' = next
  /\ cData' = data
  /\ cRequests' = cRequests + 1
  /\ cResult' = cResult

\* total24h of a sub-query that answered OK, undefined otherwise.
secondaryValue(outcome) ==
  IF outcome.kind = "ok" /\ outcome.has THEN Num(outcome.items[1]) ELSE Undefined

\* scrapeOnchainData is called and awaits the chains query.
OnchainStart ==
  /\ conn = "onchain" /\ cpc = "idle"
  /\ OnchainGoes("chains", NoOnchain)
  /\ UNCHANGED <<now, cIdx, cItems, cLog>>
  /\ ConnFrame

\* The primary query settles.
OnchainChainsSettles ==
  /\ conn = "onchain" /\ cpc = "chains"
  /\ \E outcome \in ChainsOutcomes :
       /\ cLog' = Append(cLog, [outcome |-> outcome, at |-> now])
       /\ IF outcome.kind # "ok" THEN OnchainFails("SCRAPER_FAILED")
          ELSE IF ~outcome.has THEN OnchainFails("NO_DATA_AVAILABLE")
          ELSE OnchainGoes("history",
                           [cData EXCEPT !.t = "object", !.tvl = Num(outcome.items[1]),
                                         !.tvlChange24h = Num(0), !.tvlChange7d = Num(0)])
  /\ UNCHANGED <<now, cIdx, cItems>>
  /\ ConnFrame

\* The history query settles: a rejection fails the connector, an answer
\* that is not OK or too short leaves both changes at 0.
OnchainHistorySettles ==
  /\ conn = "onchain" /\ cpc = "history"
  /\ \E outcome \in HistoryOutcomes :
       /\ cLog' = Append(cLog, [outcome |-> outcome, at |-> now])
       /\ IF outcome.kind = "throw" THEN OnchainFails("SCRAPER_FAILED")
          ELSE IF outcome.kind = "ok" /\ Len(outcome.items) > 1
          THEN OnchainGoes("volume",
                           [cData EXCEPT !.tvlChange24h = Num(tvlChange(outcome.items, 2)),
                                         !.tvlChange7d = Num(tvlChange(outcome.items, 8))])
          ELSE OnchainGoes("volume", cData)
  /\ UNCHANGED <<now, cIdx, cItems>>
  /\ ConnFrame

\* The volume sub-query settles, inside its own try.
OnchainVolumeSettles ==
  /\ conn = "onchain" /\ cpc = "volume"
  /\ \E outcome \in SecondaryOutcomes :
       /\ cLog' = Append(cLog, [outcome |-> outcome, at |-> now])
       /\ OnchainGoes("fees", [cData EXCEPT !.volume24h = secondaryValue(outcome)])
  /\ UNCHANGED <<now, cIdx, cItems>>
  /\ ConnFrame

\* A fees step outside any try of its own.
OnchainFeesSettlesFailing ==
  /\ conn = "onchain" /\ cpc = "fees"
  /\ \E outcome \in SecondaryOutcomes :
       /\ cLog' = Append(cLog, [outcome |-> outcome, at |-> now])
       /\ IF outcome.kind = "throw" THEN OnchainFails("SCRAPER_FAILED")
          ELSE OnchainGoes("stablecoins", [cData EXCEPT !.fees24h = secondaryValue(outcome)])
  /\ UNCHANGED <<now, cIdx, cItems>>
  /\ ConnFrame

\* The fees sub-query settles, inside its own try.
OnchainFeesSettles ==
  /\ conn = "onchain" /\ cpc = "fees"
  /\ \E outcome \in SecondaryOutcomes :
       /\ cLog' = Append(cLog, [outcome |-> outcome, at |-> now])
       /\ OnchainGoes("stablecoins", [cData EXCEPT !.fees24h = secondaryValue(outcome)])
  /\ UNCHANGED <<now, cIdx, cItems>>
  /\ ConnFrame

\* The stablecoin query settles; what it gives is only logged.
OnchainStablecoinsSettles ==
  /\ conn = "onchain" /\ cpc = "stablecoins"
  /\ \E outcome \in ExtraOutcomes :
       /\ cLog' = Append(cLog, [outcome |-> outcome, at |-> now])
       /\ OnchainGoes("yields", cData)
  /\ UNCHANGED <<now, cIdx, cItems>>
  /\ ConnFrame

\* The yields query settles, and scrapeOnchainData returns the snapshot.
OnchainYieldsSettles ==
  /\ conn = "onchain" /\ cpc = "yields"
  /\ \E outcome \in ExtraOutcomes :
       cLog' = Append(cLog, [outcome |-> outcome, at |-> now])
  /\ cpc' = "done"
  /\ cResult' = ScrapeSuccess(NoArray, cData)
  /\ UNCHANGED <<now, cIdx, cItems, cData, cRequests>>
  /\ ConnFrame

(***************************************************************************)
(* The connectors, each called on its own                                  *)
(***************************************************************************)
InitConnectors ==
  /\ now = 0
  /\ StoreInit /\ ReqInit /\ GenIdle /\ DashIdle /\ CardIdle
  /\ conn \in {"news", "twitter", "onchain"}
  /\ cpc = "idle"
  /\ cIdx = 0
  /\ cItems = <<>>
  /\ cData = NoOnchain
  /\ cRequests = 0
  /\ cLog = <<>>
  /\ cResult = NoScrape
  /\ bearerToken \in (IF conn = "twitter" THEN BearerTokens ELSE {Undefined})

NextConnectors ==
  \/ NewsStart
  \/ NewsFeedSettles
  \/ NewsDelayDone
  \/ TwitterStart
  \/ TwitterUserSettles
  \/ TwitterTweetsSettles
  \/ TwitterDelayDone
  \/ OnchainStart
  \/ OnchainChainsSettles
  \/ OnchainHistorySettles
  \/ OnchainVolumeSettles
  \/ OnchainFeesSettles
  \/ OnchainStablecoinsSettles
  \/ OnchainYieldsSettles
  \/ Tick

SpecConnectors == InitConnectors /\ [][NextConnectors]_vars

(***************************************************************************)
(* The dashboard's routes: GET /api/drafts, PATCH /api/drafts/[id],        *)
(* POST /api/revise                                                        *)
(***************************************************************************)
\* Values of process.env.DRAFTS_DIR: not set, or a directory of its own.
DraftsDirEnvs == {Undefined, Str("/data/drafts")}

\* config.output.draftsDir, where saveDrafts writes.
draftsDir(env) == Or(env, Str("./src/data/drafts"))

\* DRAFTS_DIR of the routes: path.join(process.cwd(), "src", "data",
\* "drafts"), the directory that "./src/data/drafts" names as well.
RouteDraftsDir == Str("./src/data/drafts")

\* The files the routes find: those saveDrafts wrote when it writes to the
\* routes' directory, and none otherwise (nothing else writes there).
routeFiles(dir, env) == IF draftsDir(env) = RouteDraftsDir THEN dir ELSE <<>>

\* The last day of the model's clock.
LastDay == MaxClock \div TicksPerDay

\* readdirSync(DRAFTS_DIR).filter(...).sort().reverse(): the names differ
\* in their date alone, so their order is the order of the dates.
RECURSIVE sortedReversed(_, _)
sortedReversed(names, day) ==
  IF day < 0 THEN <<>>
  ELSE (IF filePath(DateOf(day * TicksPerDay)) \in names
        THEN <<filePath(DateOf(day * TicksPerDay))>> ELSE <<>>)
         \o sortedReversed(names, day - 1)

\* GET: the batches of the files, in that order, and their dates.
getDrafts(dir) ==
  LET files == sortedReversed(DOMAIN dir, LastDay)
  IN [status |-> 200,
      drafts |-> [i \in 1..Len(files) |-> dir[files[i]]],
      dates |-> [i \in 1..Len(files) |-> dir[files[i]].date],
      error |-> FALSE]

\* GET /api/drafts.
Load ==
  /\ loaded' = getDrafts(routeFiles(store, draftsDirEnv))
  /\ UNCHANGED <<draftsDirEnv, patched, revise>>
  /\ UNCHANGED <<now, storeVars, reqVars, genVars, connVars, cardVars>>

\* data.drafts.findIndex((d) => d.id === id), 0 when there is none.
RECURSIVE findIndex(_, _, _)
findIndex(drafts, id, from) ==
  IF from > Len(drafts) THEN 0
  ELSE IF drafts[from].id = Str(id) THEN from
  ELSE findIndex(drafts, id, from + 1)

PatchResponse(status, draft) == [status |-> status, draft |-> draft]

\* What PATCH is asked: the id of the path and the content of the body.
PatchIds == {"a1", "zz"}
PatchContents == {Str(""), Str("gm")}

\* A PATCH that writes the content over every draft of the id.
PatchDraftEveryMatch(id, content) ==
  LET dir == routeFiles(store, draftsDirEnv)
      holders == {f \in DOMAIN dir : findIndex(dir[f].drafts, id, 1) > 0}
  IN /\ IF ~Truthy(content)
        THEN /\ patched' = PatchResponse(400, Undefined)
             /\ UNCHANGED store
        ELSE IF holders = {}
        THEN /\ patched' = PatchResponse(404, Undefined)
             /\ UNCHANGED store
        ELSE \E f \in holders :
               LET data == [dir[f] EXCEPT !.drafts =
                              [j \in 1..Len(dir[f].drafts) |->
                                 IF dir[f].drafts[j].id = Str(id)
                                 THEN [dir[f].drafts[j] EXCEPT !.content = content]
                                 ELSE dir[f].drafts[j]]]
               IN /\ store' = [store EXCEPT ![f] = data]
                  /\ patched' = PatchResponse(200, Obj(id))
     /\ UNCHANGED <<lastSaver, draftsDirEnv, loaded, revise>>
     /\ UNCHANGED <<now, reqVars, genVars, connVars, cardVars>>

\* PATCH /api/drafts/[id]: the first file that holds the draft is rewritten
\* with the new content.  The order of readdirSync is not specified, so
\* the file is any of those that hold the id.  A directory that is missing
\* (which no file in it tells apart from an empty one) or cannot be written
\* makes the route answer 500.
PatchDraft(id, content) ==
  LET dir == routeFiles(store, draftsDirEnv)
      holders == {f \in DOMAIN dir : findIndex(dir[f].drafts, id, 1) > 0}
  IN /\ IF ~Truthy(content)
        THEN /\ patched' = PatchResponse(400, Undefined)
             /\ UNCHANGED store
        ELSE IF holders = {}
        THEN /\ \/ patched' = PatchResponse(404, Undefined)
                \/ DOMAIN dir = {} /\ patched' = PatchResponse(500, Undefined)
             /\ UNCHANGED store
        ELSE \E f \in holders : \E writable \in BOOLEAN :
               LET index == findIndex(dir[f].drafts, id, 1)
                   data == [dir[f] EXCEPT !.drafts[index].content = content]
               IN IF writable
                  THEN /\ store' = [store EXCEPT ![f] = data]
                       /\ patched' = PatchResponse(200, Obj(id))
                  ELSE /\ patched' = PatchResponse(500, Undefined)
                       /\ UNCHANGED store
     /\ UNCHANGED <<lastSaver, draftsDirEnv, loaded, revise>>
     /\ UNCHANGED <<now, reqVars, genVars, connVars, cardVars>>

\* What POST /api/revise is asked, and what its backend does.
ReviseFeedbacks == {Undefined, Str("shorter")}
ReviseOriginals == {Str(""), Str("hi")}
ReviseBackends ==
  {Throws(Num(529)), Responds(<<ToolUseBlock>>),
   Responds(<<TextBlock(<<Ws, Word("gm"), Ws>>)>>)}

ReviseResponse(status, text, tokens) ==
  [pc |-> "done", status |-> status, revisedContent |-> text, tokensUsed |-> tokens]

\* A revise that writes the revised text over the draft it revised.
ReviseSettlesPersisting ==
  /\ revise.pc = "await"
  /\ \E backend \in ReviseBackends :
       IF backend.kind = "throw" THEN revise' = ReviseResponse(500, <<>>, 0) /\ UNCHANGED store
       ELSE LET textBlock == findTextBlock(backend.content)
            IN IF ~textBlock.found
               THEN revise' = ReviseResponse(500, <<>>, 0) /\ UNCHANGED store
               ELSE /\ revise' = ReviseResponse(200, Trim(textBlock.text),
                                                backend.input_tokens + backend.output_tokens)
                    /\ store' = [f \in DOMAIN store |->
                                   [store[f] EXCEPT !.drafts =
                                      [i \in 1..Len(store[f].drafts) |->
                                         [store[f].drafts[i] EXCEPT !.content = Str("gm")]]]]
  /\ UNCHANGED <<lastSaver, draftsDirEnv, loaded, patched>>
  /\ UNCHANGED <<now, reqVars, genVars, connVars, cardVars>>

\* POST /api/revise up to its await: 400 without feedback or original.
ReviseReceive ==
  /\ revise.pc # "await"
  /\ \E feedback \in ReviseFeedbacks, originalContent \in ReviseOriginals :
       revise' = IF ~Truthy(feedback) \/ ~Truthy(originalContent)
                 THEN ReviseResponse(400, <<>>, 0)
                 ELSE [ReviseIdle EXCEPT !.pc = "await"]
  /\ UNCHANGED <<draftsDirEnv, loaded, patched>>
  /\ UNCHANGED <<now, storeVars, reqVars, genVars, connVars, cardVars>>

\* messages.create settles: the trimmed text of the first text block, or
\* 500 when there is none or the call threw.
ReviseSettles ==
  /\ revise.pc = "await"
  /\ \E backend \in ReviseBackends :
       revise' =
         IF backend.kind = "throw" THEN ReviseResponse(500, <<>>, 0)
         ELSE LET textBlock == findTextBlock(backend.content)
              IN IF ~textBlock.found THEN ReviseResponse(500, <<>>, 0)
                 ELSE ReviseResponse(200, Trim(textBlock.text),
                                     backend.input_tokens + backend.output_tokens)
  /\ UNCHANGED <<draftsDirEnv, loaded, patched>>
  /\ UNCHANGED <<now, storeVars, reqVars, genVars, connVars, cardVars>>

\* Generation requests of the dashboard's users, and their answers.
StoreBodies ==
  {Body(GenerationInput(Undefined, ArrayOf(<<Item("n9")>>), NoArray, NoOnchain))}

StoreBackends ==
  {Throws(Num(429)),
   Responds(<<TextBlock(<<Json(Array(<<FullDraft, OtherDraft, TwinDraft>>))>>)>>)}

\* Generating, saving, loading, editing and revising, in any order.
InitStore ==
  /\ now = 0
  /\ StoreInit /\ ReqInit /\ GenIdle /\ ConnIdle
  /\ draftsDirEnv \in DraftsDirEnvs
  /\ loaded = NoLoad
  /\ patched = NoPatch
  /\ revise = ReviseIdle
  /\ CardIdle

NextStore ==
  \/ Receive(1, StoreBodies)
  \/ BackendSettles(1, StoreBackends)
  \/ PostResume(1)
  \/ Load
  \/ \E id \in PatchIds, content \in PatchContents : PatchDraft(id, content)
  \/ ReviseReceive
  \/ ReviseSettles
  \/ Tick

SpecStore == InitStore /\ [][NextStore]_vars

(***************************************************************************)
(* The draft card of the dashboard, with its two dialogs                   *)
(***************************************************************************)
\* How often the revise dialog is opened.
MaxSessions == 3

\* MAX_LENGTH of the editor
MAX_LENGTH == 280

\* What the user types into the editor, what the user types as feedback,
\* and what a revision reads.
EditorTexts == {Str(""), Str("hi"), Str("yo"), Str(Repeated(MAX_LENGTH + 1))}
FeedbackTexts == {Str(""), Str("shorter")}
RevisedTexts == {Str("gm"), Str("yo")}

\* editedContent.length > MAX_LENGTH
isOverLimit == Len(editedContent.s) > MAX_LENGTH

CardFrame == UNCHANGED <<now, storeVars, reqVars, genVars, connVars, dashVars>>

\* updateDraft(draft.id, content) resolves: the route stores the content
\* and answers 200.  It rejects when the route answers 400 (empty
\* content), 404 or 500, or the request fails; the store is then as before.
updateDraftResolves(content, ok) == ok /\ Truthy(content)

\* The card's Edit button: setEditOpen(true).  The editor has been mounted
\* with the card, so its editedContent is what its state holds.
OpenEditor ==
  /\ ~editOpen /\ ~reviseOpen
  /\ editOpen' = TRUE
  /\ typed' = FALSE
  /\ UNCHANGED <<storedContent, localContent, reviseOpen, editedContent,
                 typedFeedback, revisedContent, error, loading, session, asked,
                 revisedIn>>
  /\ CardFrame

\* The editor's Textarea: onChange sets editedContent.
EditorType ==
  /\ editOpen
  /\ \E text \in EditorTexts : editedContent' = text
  /\ typed' = TRUE
  /\ UNCHANGED <<storedContent, localContent, editOpen, reviseOpen,
                 typedFeedback, revisedContent, error, loading, session, asked,
                 revisedIn>>
  /\ CardFrame

\* The editor's Cancel button, and the dialog closing itself:
\* onOpenChange(false).
EditorCancel ==
  /\ editOpen
  /\ editOpen' = FALSE
  /\ UNCHANGED <<storedContent, localContent, reviseOpen, editedContent,
                 typedFeedback, revisedContent, error, loading, session, asked,
                 revisedIn, typed>>
  /\ CardFrame

\* The editor's handleSave with the card's handleSave: nothing over the
\* limit; updateDraft, then setLocalContent and onOpenChange(false); when
\* updateDraft rejects the editor stays as it is.
EditorSave ==
  /\ editOpen /\ ~isOverLimit
  /\ \E ok \in BOOLEAN :
       IF updateDraftResolves(editedContent, ok)
       THEN /\ storedContent' = editedContent
            /\ localContent' = editedContent
            /\ editOpen' = FALSE
       ELSE UNCHANGED <<storedContent, localContent, editOpen>>
  /\ UNCHANGED <<reviseOpen, editedContent, typedFeedback, revisedContent,
                 error, loading, session, asked, revisedIn, typed>>
  /\ CardFrame

\* The card's Ask AI to Revise button: setReviseOpen(true).
OpenRevise ==
  /\ ~editOpen /\ ~reviseOpen
  /\ session < MaxSessions
  /\ reviseOpen' = TRUE
  /\ session' = session + 1
  /\ UNCHANGED <<storedContent, localContent, editOpen, editedContent,
                 typedFeedback, revisedContent, error, loading, asked,
                 revisedIn, typed>>
  /\ CardFrame

\* The feedback Textarea, rendered while there is no revised content.
ReviseType ==
  /\ reviseOpen /\ ~Truthy(revisedContent)
  /\ \E text \in FeedbackTexts : typedFeedback' = text
  /\ UNCHANGED <<storedContent, localContent, editOpen, reviseOpen,
                 editedContent, revisedContent, error, loading, session, asked,
                 revisedIn, typed>>
  /\ CardFrame

\* handleRevise up to its await; its button is rendered while there is no
\* revised content and disabled while loading or without feedback.
handleRevise ==
  /\ reviseOpen /\ ~Truthy(revisedContent)
  /\ ~loading /\ Truthy(typedFeedback)
  /\ loading' = TRUE
  /\ error' = Null
  /\ asked' = session
  /\ UNCHANGED <<storedContent, localContent, editOpen, reviseOpen,
                 editedContent, typedFeedback, revisedContent, session,
                 revisedIn, typed>>
  /\ CardFrame

\* reviseDraft settles and handleRevise resumes, whether the dialog is
\* still open or not: setRevisedContent or setError, then setLoading(false).
handleReviseResumes ==
  /\ loading
  /\ \/ \E text \in RevisedTexts :
          /\ revisedContent' = text
          /\ revisedIn' = asked
          /\ UNCHANGED error
     \/ /\ error' = Str("Failed to revise draft")
        /\ UNCHANGED <<revisedContent, revisedIn>>
  /\ loading' = FALSE
  /\ asked' = 0
  /\ UNCHANGED <<storedContent, localContent, editOpen, reviseOpen,
                 editedContent, typedFeedback, session, typed>>
  /\ CardFrame

\* The Try Again button: setRevisedContent(null); setFeedback("").
TryAgain ==
  /\ reviseOpen /\ Truthy(revisedContent)
  /\ revisedContent' = Null
  /\ typedFeedback' = Str("")
  /\ revisedIn' = 0
  /\ UNCHANGED <<storedContent, localContent, editOpen, reviseOpen,
                 editedContent, error, loading, session, asked, typed>>
  /\ CardFrame

\* handleAccept with the card's handleReviseAccept: updateDraft, then
\* setLocalContent, onOpenChange(false) and resetState; when updateDraft
\* rejects the dialog stays as it is.
handleAccept ==
  /\ reviseOpen /\ Truthy(revisedContent)
  /\ \E ok \in BOOLEAN :
       IF updateDraftResolves(revisedContent, ok)
       THEN /\ storedContent' = revisedContent
            /\ localContent' = revisedContent
            /\ reviseOpen' = FALSE
            /\ typedFeedback' = Str("")
            /\ revisedContent' = Null
            /\ error' = Null
            /\ revisedIn' = 0
       ELSE UNCHANGED <<storedContent, localContent, reviseOpen, typedFeedback,
                        revisedContent, error, revisedIn>>
  /\ UNCHANGED <<editOpen, editedContent, loading, session, asked, typed>>
  /\ CardFrame

\* handleClose(false), from the Cancel button or the dialog closing
\* itself: resetState, then onOpenChange(false).
handleClose ==
  /\ reviseOpen
  /\ typedFeedback' = Str("")
  /\ revisedContent' = Null
  /\ error' = Null
  /\ revisedIn' = 0
  /\ reviseOpen' = FALSE
  /\ UNCHANGED <<storedContent, localContent, editOpen, editedContent,
                 loading, session, asked, typed>>
  /\ CardFrame

InitCard ==
  /\ now = 0
  /\ StoreInit /\ ReqInit /\ GenIdle /\ ConnIdle /\ DashIdle /\ CardIdle

NextCard ==
  \/ OpenEditor
  \/ EditorType
  \/ EditorCancel
  \/ EditorSave
  \/ OpenRevise
  \/ ReviseType
  \/ handleRevise
  \/ handleReviseResumes
  \/ TryAgain
  \/ handleAccept
  \/ handleClose

SpecCard == InitCard /\ [][NextCard]_vars

(***************************************************************************)
(* Properties of generateTweets (checked under SpecGen)                    *)
(***************************************************************************)
\* The text of the first text-typed block of the backend's answer, and the
\* entries of the array it holds once the fences are off.
AnsweredText ==
  LET content == gBackend.content
      first == CHOOSE i \in 1..Len(content) :
                 /\ content[i].type = "text"
                 /\ \A j \in 1..(i - 1) : content[j].type # "text"
  IN content[first].text

AnsweredItems == JSONparse(stripFences(AnsweredText)).doc.items

DraftFields ==
  {"id", "content", "source", "context", "confidence", "createdAt", "metadata"}

\* C5: when the backend call throws, the failure generateTweets returns is
\* decided by the status of the error alone: 401 and 403 give
\* AI_UNAVAILABLE, 429 gives AI_RATE_LIMITED, 404 gives AI_MODEL_NOT_FOUND,
\* any other status and a missing status give UNKNOWN_ERROR.
C5_StatusAloneDecidesKind ==
  (gpc = "resolved" /\ gBackend.kind = "throw") =>
    /\ ~gResult.success
    /\ gResult.code =
         CASE gBackend.status \in {Num(401), Num(403)} -> "AI_UNAVAILABLE"
           [] gBackend.status = Num(429) -> "AI_RATE_LIMITED"
           [] gBackend.status = Num(404) -> "AI_MODEL_NOT_FOUND"
           [] OTHER -> "UNKNOWN_ERROR"

\* A call answered by a 403 has resolved to AI_UNAVAILABLE.
C5_Witness ==
  /\ gpc = "resolved"
  /\ gBackend = Throws(Num(403))
  /\ gResult = fail("AI_UNAVAILABLE")

\* C6: every call of generateTweets, however it ends, has invoked the
\* backend exactly once.
C6_BackendInvokedExactlyOnce ==
  gpc \in {"resolved", "rejected"} => gCalls = 1

\* C7: a backend answer with no text-typed block, or whose text does not
\* parse as JSON once the fences are off, or parses to something that is not
\* an array, makes generateTweets resolve to the failure
\* AI_INVALID_RESPONSE.
C7_UnusableAnswerIsInvalid ==
  (gpc = "resolved" /\ gBackend.kind = "response") =>
    LET content == gBackend.content
        unusable ==
          \/ \A i \in 1..Len(content) : content[i].type # "text"
          \/ ~JSONparse(stripFences(AnsweredText)).ok
          \/ JSONparse(stripFences(AnsweredText)).doc.kind # "array"
    IN unusable => gResult = fail("AI_INVALID_RESPONSE")

\* A call answered by a JSON object instead of an array has resolved to
\* AI_INVALID_RESPONSE.
C7_Witness ==
  /\ gpc = "resolved"
  /\ gBackend = Responds(<<TextBlock(<<Json(Scalar("object"))>>)>>)
  /\ gResult = fail("AI_INVALID_RESPONSE")

\* C8: a successful call returns one Draft per entry of the answered array,
\* in the array's order; an entry without id gets draft-<now>-<index>, one
\* without confidence gets 0.5, one without createdAt gets the current time,
\* one without source gets "mixed".
C8_MissingFieldsDefaulted ==
  (gpc = "resolved" /\ gResult.success) =>
    /\ Len(gResult.drafts) = Len(AnsweredItems)
    /\ \A i \in 1..Len(AnsweredItems) :
         LET entry == AnsweredItems[i]
             draft == gResult.drafts[i]
         IN /\ entry.id = Undefined =>
                 draft.id = Str("draft-" \o ToString(now) \o "-" \o ToString(i - 1))
            /\ entry.confidence = Undefined => draft.confidence = Num(5)
            /\ entry.createdAt = Undefined => draft.createdAt = Str(IsoString(now))
            /\ entry.source = Undefined => draft.source = Str("mixed")
            /\ Truthy(entry.content) => draft.content = entry.content

\* The answer [full draft, {"content":"hi"}] at time 2: two Drafts, the
\* second one completed with every default.
C8_Witness ==
  /\ gpc = "resolved"
  /\ now = 2
  /\ gBackend = Responds(<<TextBlock(<<Json(Array(<<FullDraft, ContentOnlyDraft>>))>>)>>)
  /\ gResult.success
  /\ Len(gResult.drafts) = 2
  /\ gResult.drafts[1].id = Str("a1")
  /\ gResult.drafts[2] =
       [id |-> Str("draft-2-1"), content |-> Str("hi"), source |-> Str("mixed"),
        context |-> Str(""), confidence |-> Num(5), createdAt |-> Str("D1T0"),
        metadata |-> Undefined]

\* C9: every field that is present in an answered draft object has the same
\* value in the Draft returned for it, whatever that value is.
C9_PresentFieldsUntouched ==
  (gpc = "resolved" /\ gResult.success) =>
    \A i \in 1..Len(AnsweredItems) :
      AnsweredItems[i].kind = "object" =>
        \A f \in DraftFields :
          AnsweredItems[i][f] # Undefined => gResult.drafts[i][f] = AnsweredItems[i][f]

\* C10: whatever the input and whatever the backend does, generateTweets
\* never rejects, and what it resolves to is a success or a failure that
\* carries an ErrorCode.
C10_GenerateNeverRejects ==
  /\ gpc # "rejected"
  /\ gpc = "resolved" => (gResult.success \/ gResult.code \in ErrorCode)

\* The backend answered with a text-typed block.
AnsweredWithText ==
  /\ gBackend.kind = "response"
  /\ \E i \in 1..Len(gBackend.content) : gBackend.content[i].type = "text"

\* C23: an answered array with an entry that is not an object (a number, a
\* string, a boolean, null or a nested array) makes generateTweets resolve
\* to AI_INVALID_RESPONSE.
C23_NonObjectEntryRejected ==
  (gpc = "resolved" /\ AnsweredWithText) =>
    LET parsed == JSONparse(stripFences(AnsweredText))
    IN (/\ parsed.ok
        /\ parsed.doc.kind = "array"
        /\ \E i \in 1..Len(parsed.doc.items) : parsed.doc.items[i].kind # "object")
         => gResult = fail("AI_INVALID_RESPONSE")

\* C22: every Draft that generateTweets returns has a content of at most
\* tweetMaxLength characters.
C22_ContentWithinLimit ==
  (gpc = "resolved" /\ gResult.success) =>
    \A i \in 1..Len(gResult.drafts) :
      Len(gResult.drafts[i].content.s) <= 280

\* What lies between the fences of a text that opens and closes with one.
BetweenFences(text) ==
  LET t == Trim(text) IN SubSeq(t, 2, Len(t) - 1)

\* The language tag right after the opening fence, "" when there is none.
FenceTag(text) ==
  LET inner == BetweenFences(text)
  IN IF inner # <<>> /\ inner[1].k = "word" THEN inner[1].w ELSE ""

\* What the fences wrap, the tag aside.
FencedBody(text) ==
  LET inner == BetweenFences(text)
  IN Trim(IF inner # <<>> /\ inner[1].k = "word" THEN Tail(inner) ELSE inner)

\* The text is a JSON array between an opening fence, tagged or not, and a
\* closing fence, with whitespace around any of them.
FencedArray(text) ==
  LET t == Trim(text)
  IN /\ Len(t) >= 3
     /\ t[1].k = "fence" /\ t[Len(t)].k = "fence"
     /\ Len(FencedBody(text)) = 1
     /\ FencedBody(text)[1].k = "json"
     /\ FencedBody(text)[1].doc.kind = "array"

\* generateTweets resolved to what the array gives when it is answered bare.
ResolvedAsUnfenced ==
  LET direct == parseResponse(FencedBody(AnsweredText), now)
  IN IF direct.isNull THEN gResult = fail("AI_INVALID_RESPONSE")
     ELSE gResult.success /\ gResult.drafts = direct.drafts

C3_SaveFailureKeepsSuccess ==
  \A r \in Reqs :
    (pc[r] = "done" /\ result[r].success) =>
      /\ response[r].status = 200
      /\ response[r].drafts = result[r].drafts
      /\ response[r].tokensUsed = result[r].tokensUsed

\* A request whose drafts could not be saved and were returned all the same.
C3_Witness ==
  /\ pc[1] = "done"
  /\ result[1].success
  /\ Len(result[1].drafts) > 0
  /\ saveResult[1] = SaveFail
  /\ store = <<>>
  /\ response[1].status = 200
  /\ response[1].drafts = result[1].drafts

\* C4: a connector that fails or throws leaves its source out of the
\* scraped input, the next connector is called all the same, and after the
\* last one the request goes on to generate from exactly the sources that
\* delivered, whenever there is one.
C4_ConnectorFailureDegrades ==
  [][\A r \in Reqs :
       LET failed == Len(scrapeErrors'[r]) > Len(scrapeErrors[r])
       IN /\ (pc[r] = "scrapeTwitter" /\ pc'[r] # pc[r]) =>
               /\ pc'[r] = "scrapeNews"
               /\ failed => scrapedInput'[r].tweets = NoArray
          /\ (pc[r] = "scrapeNews" /\ pc'[r] # pc[r]) =>
               /\ pc'[r] = "scrapeOnchain"
               /\ failed => scrapedInput'[r].news = NoArray
               /\ scrapedInput'[r].tweets = scrapedInput[r].tweets
          /\ (pc[r] = "scrapeOnchain" /\ pc'[r] # pc[r]) =>
               /\ failed => scrapedInput'[r].onchainData = NoOnchain
               /\ scrapedInput'[r].tweets = scrapedInput[r].tweets
               /\ scrapedInput'[r].news = scrapedInput[r].news
               /\ input'[r] = scrapedInput'[r]
               /\ hasData(scrapedInput'[r]) =>
                    pc'[r] = "awaitBackend" /\ calls'[r] = 1]_vars

\* Twitter and the on-chain connector failed, the news connector delivered:
\* the backend has been invoked with the news alone.
C4_Witness ==
  /\ pc[1] = "awaitBackend"
  /\ scrapeErrors[1] = <<"Twitter", "On-chain">>
  /\ input[1] = [EmptyInput EXCEPT !.news = ArrayOf(<<Item("n1")>>)]
  /\ calls[1] = 1

(***************************************************************************)
(* Properties of the store (checked under SpecConcurrent)                  *)
(***************************************************************************)
\* The step in which request r calls saveDrafts.
SaveStepBy(r) == pc[r] = "generated" /\ pc'[r] = "done" /\ result[r].success

\* The files of the store that hold a batch of the given date.
BatchesOf(dir, date) == {f \in DOMAIN dir : dir[f].date = date}

\* After the step, the store holds exactly one batch for today, with the
\* drafts and the input of the call; the other batches are as before.
CallReplacedToday(r) ==
  LET D == DateOf(now)
  IN /\ Cardinality(BatchesOf(store', D)) = 1
     /\ \A f \in BatchesOf(store', D) :
          store'[f].drafts = result[r].drafts /\ store'[f].input = input[r]
     /\ \A f \in DOMAIN store \ BatchesOf(store, D) :
          f \in DOMAIN store' /\ store'[f] = store[f]
     /\ \A f \in DOMAIN store' \ BatchesOf(store', D) : f \in DOMAIN store

\* C1 (as the code has it): a saveDrafts call that returns success leaves
\* exactly one batch for the day, with its own drafts and input, and the
\* batches of other days untouched; a call that returns a failure leaves the
\* store as it was.  So after any sequence of calls of one day the batch of
\* the day is that of the most recent call that returned success.
C1_SuccessfulSaveReplaces ==
  [][\A r \in Reqs :
       SaveStepBy(r) =>
         IF saveResult'[r].success THEN CallReplacedToday(r) ELSE store' = store]_vars

\* C1 (as stated): every saveDrafts call leaves exactly one batch for the
\* day, with its own drafts and input.
C1_EverySaveReplaces ==
  [][\A r \in Reqs : SaveStepBy(r) => CallReplacedToday(r)]_vars

\* Two saves of the second day, one after the other, with different drafts
\* and inputs, on top of a batch of the first day: the day's one batch is the
\* later call's, the first day's batch is still there.
C1_Witness ==
  /\ DOMAIN store = {filePath("D0"), filePath("D1")}
  /\ \A r \in Reqs : pc[r] = "done" /\ ~overlapped[r]
  /\ saveResult[1] = SaveOk(filePath("D1"))
  /\ saveResult[2] = SaveOk(filePath("D1"))
  /\ result[1].drafts # result[2].drafts
  /\ input[1] # input[2]
  /\ lastSaver[filePath("D1")] = 2
  /\ store[filePath("D1")].drafts = result[2].drafts
  /\ store[filePath("D1")].input = input[2]
  /\ store[filePath("D0")].date = "D0"

\* What the store holds and how each request stands, with overlapping
\* requests.
StoredBatchIsLastSavers ==
  /\ \A r \in Reqs :
       /\ pc[r] \in {"awaitBackend", "generated"} => calls[r] = 1
       /\ (pc[r] = "done" /\ response[r].status = 200) =>
            calls[r] = 1 /\ response[r].drafts = result[r].drafts
  /\ \A f \in DOMAIN store :
       LET w == lastSaver[f]
       IN (pc[w] = "done" /\ saveResult[w] = SaveOk(f)) =>
            /\ store[f].drafts = result[w].drafts
            /\ store[f].input = input[w]

\* A step of one request leaves every other request where it is, with its
\* input, its result and its response.
StepsOfOthersLeaveAlone ==
  \A q \in Reqs : \A r \in Reqs \ {q} :
    pc'[q] # pc[q] =>
      /\ pc'[r] = pc[r]
      /\ input'[r] = input[r]
      /\ result'[r] = result[r]
      /\ response'[r] = response[r]
      /\ calls'[r] = calls[r]

\* C2: requests that overlap each invoke the backend once, are never moved,
\* answered or changed by a step of another request, and are each answered
\* with their own drafts; a stored batch is, drafts and input, the one of
\* the request that saved it last.
C2_LaterWriteWinsWhole ==
  []StoredBatchIsLastSavers /\ [][StepsOfOthersLeaveAlone]_vars

\* Two requests that were in flight together, with different inputs and
\* different drafts, have both completed and both saved the same day; the
\* batch is the one of request 2, which saved last.
C2_Witness ==
  /\ \A r \in Reqs : pc[r] = "done" /\ overlapped[r] /\ response[r].status = 200
  /\ \A r \in Reqs : calls[r] = 1 /\ saveResult[r] = SaveOk(filePath("D0"))
  /\ result[1].drafts # result[2].drafts
  /\ input[1] # input[2]
  /\ lastSaver[filePath("D0")] = 2
  /\ store[filePath("D0")].drafts = result[2].drafts
  /\ store[filePath("D0")].input = input[2]

(***************************************************************************)
(* Properties of the connectors (checked under SpecConnectors)             *)
(***************************************************************************)
\* The items of a list of NewsItems or TwitterPosts, as a set.
ItemsOf(list) == {list[i] : i \in 1..Len(list)}

\* C11: every item scrapeNews collects has, at the time its feed is gone
\* through, a publish time it could parse that is at most seven days back,
\* and a relevance between 0 and 1; it returns collected items only, so never
\* the entry that is ten days old nor the one whose date does not parse.
C11_ReturnedNewsFreshAndScored ==
  [][conn = "news" =>
       /\ \A i \in (Len(cItems) + 1)..Len(cItems') :
            /\ cItems'[i].pubDate = "date"
            /\ now - cItems'[i].at <= 7 * TicksPerDay
            /\ cItems'[i].relevanceScore \in 0..10
       /\ cResult'.kind = "success" =>
            /\ ItemsOf(cResult'.list.items) \subseteq ItemsOf(cItems')
            /\ \A item \in ItemsOf(cResult'.list.items) :
                 item.title \notin {StaleItem.title, BadDateItem.title}]_vars

\* The scenario: of an entry ten days old and one a day old, both on topic,
\* only the second is returned.
C11_Witness ==
  /\ conn = "news" /\ cpc = "done"
  /\ cLog[1].outcome = FeedParsed(<<StaleItem, DayOldItem>>)
  /\ \A k \in 2..Len(cLog) : cLog[k].outcome = FeedParsed(<<>>)
  /\ cResult.kind = "success"
  /\ cResult.list.items =
       <<[title |-> "one day old", pubDate |-> "date", at |-> 0 - TicksPerDay,
          relevanceScore |-> 3]>>

\* What the feeds of a log that answered gave, feed after feed.
RECURSIVE CollectedFrom(_)
CollectedFrom(log) ==
  IF log = <<>> THEN <<>>
  ELSE LET entry == log[Len(log)]
       IN CollectedFrom(SubSeq(log, 1, Len(log) - 1)) \o
            (IF entry.outcome.throws THEN <<>>
             ELSE collectNews(FirstOf(entry.outcome.items, ItemsChecked), entry.at))

\* When scrapeNews has returned, every feed was requested, the Result is a
\* success, and it holds the most recent of what the answering feeds gave.
NewsOfAnsweringFeeds ==
  (conn = "news" /\ cpc = "done") =>
    /\ Len(cLog) = NumFeeds
    /\ cRequests = NumFeeds
    /\ cResult.kind = "success"
    /\ cResult.list.items = FirstOf(sortByDateDesc(CollectedFrom(cLog)), TopNews)

\* No step of scrapeNews takes away an item it has collected.
CollectedNewsStay ==
  conn = "news" => (Len(cItems) <= Len(cItems') /\ SubSeq(cItems', 1, Len(cItems)) = cItems)

\* C12: whichever feeds reject, scrapeNews requests every feed, keeps what
\* it collected before, and returns a success with the (most recent)
\* qualifying items of the feeds that answered.
C12_FeedFailureIsSkipped ==
  []NewsOfAnsweringFeeds /\ [][CollectedNewsStay]_vars

\* The first feed gave an item, the last feed rejected: the item is returned.
C12_Witness ==
  /\ conn = "news" /\ cpc = "done"
  /\ cLog[1].outcome = FeedParsed(<<StaleItem, DayOldItem>>)
  /\ cLog[Len(cLog)].outcome = FeedThrows
  /\ cRequests = NumFeeds
  /\ cResult.kind = "success"
  /\ Len(cResult.list.items) = 1

\* C13: with nothing collected scrapeNews returns a success with an empty
\* list, whereas scrapeTwitter, credential in hand, returns the failure
\* NO_DATA_AVAILABLE.
C13_EmptyIsFineForNewsOnly ==
  /\ (conn = "news" /\ cpc = "done" /\ cItems = <<>>) =>
       cResult = ScrapeSuccess(ArrayOf(<<>>), NoOnchain)
  /\ (conn = "twitter" /\ cpc = "done" /\ cRequests > 0 /\ cItems = <<>>) =>
       (cResult.kind = "NO_DATA_AVAILABLE" /\ cResult.kind # "success")

\* Every account was looked up and none gave a post.
C13_Witness ==
  /\ conn = "twitter" /\ cpc = "done"
  /\ cRequests >= NumAccounts
  /\ cItems = <<>>
  /\ \E k \in 1..Len(cLog) : cLog[k].outcome = FetchOk(TRUE, <<>>) /\ cRequests > NumAccounts
  /\ cResult = ScrapeFailure("NO_DATA_AVAILABLE")

\* C14: without a bearer credential, or with the placeholder, scrapeTwitter
\* returns MISSING_ENV_VAR and has issued no request; with a credential it
\* never returns that kind.
C14_MissingCredentialFirst ==
  (conn = "twitter" /\ cpc # "idle") =>
    IF bearerToken \in {Undefined, Str(""), Str("your-twitter-bearer-token")}
    THEN /\ cpc = "done"
         /\ cResult.kind = "MISSING_ENV_VAR"
         /\ cResult.kind \notin {"SCRAPER_FAILED", "NO_DATA_AVAILABLE", "UNKNOWN_ERROR"}
         /\ cRequests = 0
         /\ cLog = <<>>
    ELSE cResult.kind # "MISSING_ENV_VAR"

\* The placeholder is configured.
C14_Witness ==
  /\ conn = "twitter" /\ cpc = "done"
  /\ bearerToken = Str("your-twitter-bearer-token")
  /\ cResult = ScrapeFailure("MISSING_ENV_VAR")
  /\ cRequests = 0

\* The value a sub-query of the metrics connector stands for.
AnsweredMetric(outcome) ==
  IF outcome.kind = "ok" /\ outcome.has THEN Num(outcome.items[1]) ELSE Undefined

\* C15: once the primary part (level and history) is through, the Result
\* is a success with the TVL, and volume and fees are each what their own
\* sub-query gave, absent when it failed.
C15_SecondaryMetricsOptional ==
  (conn = "onchain" /\ cpc = "done" /\ Len(cLog) >= 3) =>
    /\ Len(cLog) = 6
    /\ cResult.kind = "success"
    /\ cResult.oc.tvl = Num(cLog[1].outcome.items[1])
    /\ cResult.oc.volume24h = AnsweredMetric(cLog[3].outcome)
    /\ cResult.oc.fees24h = AnsweredMetric(cLog[4].outcome)

\* The scenario: the fees sub-query rejects, the volume sub-query answers.
C15_Witness ==
  /\ conn = "onchain" /\ cpc = "done"
  /\ Len(cLog) = 6
  /\ cLog[3].outcome = Metric(77)
  /\ cLog[4].outcome = FetchThrows
  /\ cResult.kind = "success"
  /\ cResult.oc.tvl = Num(1200)
  /\ cResult.oc.volume24h = Num(77)
  /\ cResult.oc.fees24h = Undefined

\* The connector is called: scrapeNews, scrapeTwitter or scrapeOnchainData
\* runs to its first await.
ConnectorIsCalled == NewsStart \/ TwitterStart \/ OnchainStart

\* The connectors, where a connector that can be called is called in the
\* end. No step of an upstream is fair: nothing makes a server answer.
SpecConnectorsFair == SpecConnectors /\ WF_vars(ConnectorIsCalled)

\* The connector awaits the answer to a network call.
AwaitsUpstream ==
  cpc \in {"fetch", "fetchUser", "fetchTweets", "chains", "history", "volume",
           "fees", "stablecoins", "yields"}

\* C19: every network call of a connector is bounded by a timeout, so a
\* connector that awaits an upstream gets past that await in the end, even
\* when the upstream never answers.
C19_EveryCallEnds == AwaitsUpstream ~> ~AwaitsUpstream

\* No connector ever returns a timeout kind.
NoTimeoutKind == cResult.kind # "SCRAPER_TIMEOUT"

\* C24: in the news and social connectors the first request for the next
\* feed or account is issued only when the delay after the one before has
\* run out, also when that one failed or was skipped.
C24_DelayBeforeNextEndpoint ==
  [][(conn \in {"news", "twitter"} /\ cIdx >= 1 /\ cIdx' = cIdx + 1) =>
       cpc = "delay"]_vars

\* C28: every item scrapeNews returns has a relevance above 0.
C28_ReturnedNewsScoresAboveZero ==
  (conn = "news" /\ cpc = "done" /\ cResult.kind = "success") =>
    \A item \in ItemsOf(cResult.list.items) : item.relevanceScore > 0

(***************************************************************************)
(* Properties of POST /api/drafts (checked under Spec), continued          *)
(***************************************************************************)
\* C16: a request whose scrapeFirst is true is generated from what the
\* connectors fetched and from nothing else, whatever its body carried.
C16_ScrapeFirstIgnoresBody ==
  \A r \in Reqs :
    (body[r].ok /\ body[r].value.scrapeFirst = Bool(TRUE) /\ calls[r] >= 1) =>
      input[r] = scrapedInput[r]

(***************************************************************************)
(* Properties of the dashboard's routes (checked under SpecStore)          *)
(***************************************************************************)
\* The step is one of POST /api/revise.
ReviseStep == revise' # revise

\* The step is a PATCH that found its draft and wrote it.
UpdateStep == patched'.status = 200 /\ revise' = revise /\ UNCHANGED reqVars

\* The files of the step's date, the only ones a save of that day writes.
TodaysFiles == {filePath(DateOf(now))}

\* C17: no step of a revise request, whatever it answers, changes a
\* persisted batch; the store changes only in an update request that found
\* its draft, or in a save, which writes the file of its day alone.
C17_ReviseLeavesStoreAlone ==
  [][/\ ReviseStep => store' = store
     /\ store' # store =>
          \/ UpdateStep
          \/ /\ SaveStepBy(1)
             /\ \A f \in DOMAIN store \ TodaysFiles : store'[f] = store[f]]_vars

\* A revision was returned for a draft that is stored, and the stored
\* draft still reads as before.
C17_Witness ==
  /\ revise.pc = "done" /\ revise.status = 200
  /\ revise.revisedContent = <<Word("gm")>>
  /\ \E f \in DOMAIN store : store[f].drafts[1].content = Str("hi")
  /\ patched = NoPatch

\* The day a batch's date names.
DayOf(date) == CHOOSE day \in 0..LastDay : DateOf(day * TicksPerDay) = date

\* The response lists every batch of the store once, the most recent first.
ListsEveryBatch(resp, dir) ==
  /\ resp.status = 200 /\ ~resp.error
  /\ Len(resp.drafts) = Cardinality(DOMAIN dir)
  /\ \A f \in DOMAIN dir : \E i \in 1..Len(resp.drafts) : resp.drafts[i] = dir[f]
  /\ \A i, j \in 1..Len(resp.drafts) :
       i < j => DayOf(resp.drafts[i].date) > DayOf(resp.drafts[j].date)

\* C18: a load returns every stored batch exactly once, the most recent
\* first, and an empty list when nothing is stored.
C18_LoadListsEveryBatch ==
  [][loaded' # loaded => ListsEveryBatch(loaded', store)]_vars

\* The same, where DRAFTS_DIR is not set.
LoadListsEveryBatchByDefault ==
  [][(loaded' # loaded /\ draftsDirEnv = Undefined) =>
       ListsEveryBatch(loaded', store)]_vars

\* Two batches were stored and loaded, the later one first.
LoadedTwoBatches ==
  /\ Len(loaded.drafts) = 2
  /\ loaded.dates = <<DateOf(MaxClock), DateOf(0)>>

\* The dates that have a persisted batch.
PersistedDates(dir) == {dir[f].date : f \in DOMAIN dir}

\* C20: no step takes a file away from the store or changes the date of a
\* batch, so the dates with a persisted batch never become fewer.
C20_BatchesNeverRemoved ==
  [][/\ DOMAIN store \subseteq DOMAIN store'
     /\ \A f \in DOMAIN store : store'[f].date = store[f].date
     /\ PersistedDates(store) \subseteq PersistedDates(store')]_vars

\* Batches of two days are stored after a generation with its save, a load,
\* an edit and a revision.
C20_Witness ==
  /\ Cardinality(PersistedDates(store)) = 2
  /\ pc[1] = "done" /\ saveResult[1].success
  /\ Len(loaded.drafts) >= 1
  /\ patched.status = 200
  /\ revise.pc = "done" /\ revise.status = 200

\* The stored batches are as before the step.
NothingModified == store' = store

\* The step changed, in file f, the content of the draft at index i to
\* content, and nothing else of any batch.
OnlyContentChanged(f, i, content) ==
  /\ DOMAIN store' = DOMAIN store
  /\ \A g \in DOMAIN store \ {f} : store'[g] = store[g]
  /\ store'[f].date = store[f].date
  /\ store'[f].generatedAt = store[f].generatedAt
  /\ store'[f].input = store[f].input
  /\ Len(store'[f].drafts) = Len(store[f].drafts)
  /\ \A j \in 1..Len(store[f].drafts) :
       IF j = i
       THEN /\ store'[f].drafts[j].content = content
            /\ \A k \in DraftFields \ {"content"} :
                 store'[f].drafts[j][k] = store[f].drafts[j][k]
       ELSE store'[f].drafts[j] = store[f].drafts[j]

\* The files of the route's directory that hold a draft of the id, and the
\* index of the first such draft of a file.
HoldersOf(id) ==
  LET dir == routeFiles(store, draftsDirEnv)
  IN {f \in DOMAIN dir : \E j \in 1..Len(dir[f].drafts) : dir[f].drafts[j].id = Str(id)}

FirstMatch(f, id) ==
  CHOOSE i \in 1..Len(store[f].drafts) :
    /\ store[f].drafts[i].id = Str(id)
    /\ \A j \in 1..(i - 1) : store[f].drafts[j].id # Str(id)

\* What an edit request does when its content is not empty and a draft of
\* the id is found: the first match of one file gets the content (200), or
\* the write fails and nothing is modified (500).
EditsFirstMatch(id, content) ==
  \/ /\ patched'.status = 200
     /\ \E f \in HoldersOf(id) : OnlyContentChanged(f, FirstMatch(f, id), content)
  \/ patched'.status = 500 /\ NothingModified

\* C26: an edit request with non-empty content changes only the content of
\* the first draft of the id; with empty content it is answered 400, and
\* when no draft of the id is found it is answered 404, or 500 when the
\* drafts directory holds no batch at all, and in each of these cases no
\* stored batch is modified.
C26_EditChangesOnlyContent ==
  [][\A id \in PatchIds, content \in PatchContents :
       PatchDraft(id, content) =>
         IF content = Str("")
         THEN patched'.status = 400 /\ NothingModified
         ELSE IF HoldersOf(id) = {}
         THEN /\ NothingModified
              /\ \/ patched'.status = 404
                 \/ /\ patched'.status = 500
                    /\ DOMAIN routeFiles(store, draftsDirEnv) = {}
         ELSE EditsFirstMatch(id, content)]_vars

\* C26 as stated: when no draft of the id is found the answer is 404.
C26_NoMatchIs404 ==
  [][\A id \in PatchIds, content \in PatchContents :
       PatchDraft(id, content) =>
         IF content = Str("")
         THEN patched'.status = 400 /\ NothingModified
         ELSE IF HoldersOf(id) = {}
         THEN patched'.status = 404 /\ NothingModified
         ELSE EditsFirstMatch(id, content)]_vars

\* An edit found the id in a batch of three drafts, two of which carry it:
\* the first reads the new content, the second still reads its own.
C26_Witness ==
  /\ patched.status = 200
  /\ \E f \in DOMAIN store :
       /\ Len(store[f].drafts) = 3
       /\ store[f].drafts[1].id = Str("a1") /\ store[f].drafts[1].content = Str("gm")
       /\ store[f].drafts[3].id = Str("a1") /\ store[f].drafts[3].content = Str("yo")
       /\ store[f].drafts[2].content = Str("gm")

(***************************************************************************)
(* Properties of the command-line run (checked under SpecCli)              *)
(***************************************************************************)
\* C21: the batch a run has saved holds, as its input, the GenerationInput
\* its drafts were generated from.
C21_BatchHoldsGeneratorInput ==
  gpc = "saved" =>
    \A f \in DOMAIN store :
      store[f].drafts = gResult.drafts => store[f].input = gInput

\* The same on the path of the dashboard: the batch a request has saved
\* holds the input that went to generateTweets.
RequestBatchHoldsInput ==
  \A r \in Reqs :
    (pc[r] = "done" /\ saveResult[r].success) =>
      LET f == saveResult[r].path
      IN lastSaver[f] = r =>
           (store[f].drafts = result[r].drafts /\ store[f].input = input[r])

(***************************************************************************)
(* Properties of POST /api/drafts (checked under Spec), continued          *)
(***************************************************************************)
\* The input has no news, no posts and no on-chain data.
CarriesNothing(inp) ==
  /\ LengthOf(inp.news) = 0
  /\ LengthOf(inp.tweets) = 0
  /\ inp.onchainData.t = "undefined"

\* C27: the backend is never invoked for an input that carries nothing; a
\* request whose input carries nothing once scraping is over, or was
\* switched off, is answered 400 without a backend call and without a save.
C27_NoBackendCallWithoutData ==
  \A r \in Reqs :
    /\ calls[r] >= 1 => ~CarriesNothing(input[r])
    /\ (body[r].ok /\ pc[r] \in {"awaitBackend", "generated", "done"}
          /\ CarriesNothing(input[r])) =>
         /\ pc[r] = "done"
         /\ response[r] = ErrorResponse(400, "")
         /\ calls[r] = 0
         /\ result[r] = NoResult
         /\ saveResult[r] = NoSave

\* Nothing was sent and all three connectors failed: 400, no backend call.
C27_Witness ==
  /\ pc[1] = "done"
  /\ body[1] = Body(EmptyInput)
  /\ scrapeErrors[1] = <<"Twitter", "News", "On-chain">>
  /\ response[1] = ErrorResponse(400, "")
  /\ calls[1] = 0
  /\ store = <<>>

(***************************************************************************)
(* Properties of the draft card (checked under SpecCard)                   *)
(***************************************************************************)
\* C29: when the editor is opened its text is the draft's current content,
\* and a save in which nothing was typed since the editor was opened leaves
\* the stored content as it was.
C29_EditorOpensOnCurrentContent ==
  [][/\ OpenEditor => editedContent' = storedContent'
     /\ (EditorSave /\ ~typed) => storedContent' = storedContent]_vars

\* The feedback, the revised text and the error of the revise dialog are
\* cleared.
ReviseDialogCleared ==
  /\ typedFeedback = Str("")
  /\ revisedContent = Null
  /\ error = Null

\* C30: while the revise dialog is closed, and when it is opened again, its
\* feedback, revised text and error are cleared, whatever was in flight
\* when it was closed; and the revision an accept hands over was produced
\* by a request of the session the dialog is in.
C30_ClosedReviseDialogStaysCleared ==
  [][/\ ~reviseOpen' => ReviseDialogCleared'
     /\ OpenRevise => ReviseDialogCleared'
     /\ (handleAccept /\ storedContent' = revisedContent) => revisedIn = session]_vars

====
